---- MODULE Spec2Model ----
(***************************************************************************)
(* Realtime delivery layer of the AOV social platform backend:            *)
(* connection registry and Redis presence sets, conversation / message    *)
(* state, the websocket frame handler, and the queue consumers.           *)
(***************************************************************************)
EXTENDS Integers, Sequences, FiniteSets, TLC

(* ------------------------------ bounds -------------------------------- *)
\* number of websocket connections ever opened in a run
MaxConn == 3
\* number of server processes
NumProcs == 2
\* client frames and external events received in a run
MaxInputs == 2
\* create_conversation requests received in a run
MaxCalls == 4
\* route requests and published events on the notification side in a run
MaxOps == 3
\* clock steps in the 86400 s expiry period of a presence set
TtlTicks == 2
\* events a consumer queue holds, ready or delivered, at one time
MaxPending == 11

Users == {"A", "B", "C"}
Conn == 1..MaxConn
Procs == 1..NumProcs
\* handler tasks of the message consumer (one per event being processed)
ConsumerTasks == {0}
Tasks == Conn \cup ConsumerTasks

VARIABLES
    pc,                 \* position of each connection's endpoint coroutine
    owner,              \* principal authenticated on each connection
    token,              \* JWT presented in each connection's handshake
    inbox,              \* per connection: payloads its notification pubsub holds
    lcur,               \* per connection: payload its listener's callback is sending
    pubret,             \* the latest publish: its principal and returned count
    listener,           \* per connection: its notification listener task
    broker,             \* per consumer queue: events ready and delivered unacknowledged
    active_connections, \* per process: user_id -> set of websockets
    socket_info,        \* per process: socket ids registered locally
    sockets,            \* Redis sets user:{user_id}:sockets
    count,              \* remove_socket's local `count` (result of SCARD)
    ttl,                \* per Redis set: clock steps left before it expires
    participants,       \* ConversationParticipant documents, by (conversation, user)
    messages,           \* Message documents in insertion order; id = position
    conversations,      \* Conversation documents
    cur,                \* locals of the handler a task is running
    outbox,             \* frames written to each websocket, in order
    queue,              \* message_consumer queue (message.* events)
    ninputs,            \* client frames and external events received so far
    dconvs,             \* number of DIRECT Conversation documents; ids 1..dconvs
    dparts,             \* their ConversationParticipant records (conversation, user)
    call,               \* per request task: locals of create_conversation
    done,               \* the create_conversation calls that returned, in order
    ncalls,             \* create_conversation requests received so far
    notifications,      \* Notification documents
    relayed,            \* payloads published to notifications:{user_id}
    nqueue,             \* notification-service.queue
    nproc,              \* locals of the notification consumer's handler
    handled,            \* events whose _process_message has returned
    settled,            \* how message.process() settled each of them
    friendships,        \* Friendship documents
    reports,            \* Report documents in insertion order; id = position
    thread_status,      \* ForumThread.status
    join_requests,      \* TeamJoinRequest documents of the team; id = position
    nops                \* requests and events on the notification side so far

presVars == <<active_connections, socket_info, sockets, count, ttl>>
chatVars == <<participants, messages, conversations, cur, outbox, queue, ninputs>>
convVars == <<dconvs, dparts, call, done, ncalls>>
notifVars == <<notifications, relayed, nqueue, nproc, handled, settled, friendships,
              reports, thread_status, join_requests, nops>>
idVars == <<owner, token>>
brokerVars == <<broker>>
relayVars == <<inbox, lcur, pubret, listener>>
vars == <<pc, idVars, brokerVars, relayVars, presVars, chatVars, convVars, notifVars>>

\* the server process that accepted connection c
ProcOf(c) == ((c - 1) % NumProcs) + 1

(* ------------------------- handshake token ----------------------------- *)
\* User documents: id -> is_active; any other id has no document
Accounts == [u \in Users \cup {"D"} |-> u \in Users]

\* a JWT: its subject, whether it parses as a JWT, carries a signature made
\* with SECRET_KEY, and is past its exp
NewToken(sub, wellformed, signed, expired) ==
    [sub |-> sub, wellformed |-> wellformed, signed |-> signed,
     expired |-> expired]
\* the token issued at login to principal u, still valid
TokenFor(u) == NewToken(u, TRUE, TRUE, FALSE)

\* variant: decoding without the exp verification
jwt_decode_no_exp(tok) ==
    IF tok.wellformed /\ tok.signed THEN tok.sub ELSE "None"

\* jwt.decode(token, SECRET_KEY, algorithms) and TokenPayload(**payload):
\* the subject, or None when InvalidTokenError / ValidationError is raised
jwt_decode(tok) ==
    IF tok.wellformed /\ tok.signed /\ ~tok.expired THEN tok.sub ELSE "None"

\* verify_websocket_token: the user of a decodable token whose subject has
\* an active User document, else None
verify_websocket_token(tok) ==
    LET sub == jwt_decode(tok) IN
    IF sub = "None" THEN "None"
    ELSE IF sub \in DOMAIN Accounts /\ Accounts[sub] THEN sub
    ELSE "None"

\* every connection presents the valid token of its principal
Authenticated == token = [c \in Conn |-> TokenFor(owner[c])]

\* websocket_endpoint: verify_websocket_token returned None:
\* websocket.close(code=4001) and return
HandshakeReject(c) ==
    /\ pc[c] = "idle"
    /\ verify_websocket_token(token[c]) = "None"
    /\ pc' = [pc EXCEPT ![c] = "rejected_4001"]
    /\ UNCHANGED <<idVars, brokerVars, relayVars, presVars, chatVars, convVars, notifVars>>

(* ---------------------- presence (Redis sets) -------------------------- *)
\* RedisService.is_user_online: SCARD user:{id}:sockets > 0
is_user_online(u) == Cardinality(sockets[u]) > 0

\* a key with no expiry set
NoTtl == -1

\* Redis keeps no empty set: a key whose last member went (SREM, DEL) is
\* gone with its expiry; the other keys keep theirs
KeyTtl(t, socks) ==
    [u \in Users |-> IF socks[u] = {} THEN NoTtl ELSE t[u]]

\* add_socket: client.expire(key, 86400): an existing key expires a full
\* period from now (TtlTicks clock steps); a missing key is left missing
Expire(t, socks, u) ==
    IF socks[u] = {} THEN t ELSE [t EXCEPT ![u] = TtlTicks]

\* ConnectionManager.connect, local part: accept, new socket id, register
ConnectLocal(c) ==
    /\ pc[c] = "idle"
    /\ pc' = [pc EXCEPT ![c] = "sadd"]
    /\ active_connections' =
         [active_connections EXCEPT ![ProcOf(c)][owner[c]] = @ \cup {c}]
    /\ socket_info' = [socket_info EXCEPT ![ProcOf(c)] = @ \cup {c}]
    /\ UNCHANGED <<idVars, brokerVars, relayVars, convVars, notifVars, sockets, count, ttl, chatVars>>

\* RedisService.add_socket: SADD
AddSocketSadd(c) ==
    /\ pc[c] = "sadd"
    /\ sockets' = [sockets EXCEPT ![owner[c]] = @ \cup {c}]
    /\ pc' = [pc EXCEPT ![c] = "expire"]
    /\ UNCHANGED <<idVars, brokerVars, relayVars, convVars, notifVars, active_connections, socket_info, count, ttl, chatVars>>

\* RedisService.add_socket: EXPIRE key 86400, then connect() returns
AddSocketExpire(c) ==
    /\ pc[c] = "expire"
    /\ ttl' = Expire(ttl, sockets, owner[c])
    /\ pc' = [pc EXCEPT ![c] = "open"]
    /\ UNCHANGED <<idVars, brokerVars, relayVars, convVars, notifVars, active_connections, socket_info, sockets, count, chatVars>>

\* ConnectionManager.disconnect, local part: drop from both local maps
DisconnectLocal(c) ==
    /\ pc[c] = "open"
    /\ pc' = [pc EXCEPT ![c] = "srem"]
    /\ active_connections' =
         [active_connections EXCEPT ![ProcOf(c)][owner[c]] = @ \ {c}]
    /\ socket_info' = [socket_info EXCEPT ![ProcOf(c)] = @ \ {c}]
    /\ UNCHANGED <<idVars, brokerVars, relayVars, convVars, notifVars, sockets, count, ttl, chatVars>>

\* RedisService.remove_socket: SREM
RemoveSocketSrem(c) ==
    /\ pc[c] = "srem"
    /\ sockets' = [sockets EXCEPT ![owner[c]] = @ \ {c}]
    /\ ttl' = KeyTtl(ttl, sockets')
    /\ pc' = [pc EXCEPT ![c] = "scard"]
    /\ UNCHANGED <<idVars, brokerVars, relayVars, convVars, notifVars, active_connections, socket_info, count, chatVars>>

\* RedisService.remove_socket: count = SCARD
RemoveSocketScard(c) ==
    /\ pc[c] = "scard"
    /\ count' = [count EXCEPT ![c] = Cardinality(sockets[owner[c]])]
    /\ pc' = [pc EXCEPT ![c] = "delete"]
    /\ UNCHANGED <<idVars, brokerVars, relayVars, convVars, notifVars, active_connections, socket_info, sockets, ttl, chatVars>>

\* RedisService.remove_socket: if count == 0: DELETE key
RemoveSocketDelete(c) ==
    /\ pc[c] = "delete"
    /\ sockets' = IF count[c] = 0 THEN [sockets EXCEPT ![owner[c]] = {}]
                  ELSE sockets
    /\ ttl' = KeyTtl(ttl, sockets')
    /\ count' = [count EXCEPT ![c] = 0]
    /\ pc' = [pc EXCEPT ![c] = "closed"]
    /\ UNCHANGED <<idVars, brokerVars, relayVars, convVars, notifVars, active_connections, socket_info, chatVars>>

(* ------------------- conversations, participants, messages ------------- *)
Convs == {"g1", "g2"}
None == "None"

\* value of find_one when no document matches
NoDoc == [exists |-> FALSE, unread_count |-> 0, last_seen_message_id |-> 0,
          left |-> FALSE]
\* ConversationParticipant with the model defaults (unread_count 0,
\* last_seen_message_id unset = 0); left: left_at is set
NewParticipant(isLeft) ==
    [exists |-> TRUE, unread_count |-> 0, last_seen_message_id |-> 0,
     left |-> isLeft]

\* locals of a task that runs no handler
NoCur == [conv |-> None, user |-> None, content |-> None, media |-> "none",
          msg |-> 0, mid |-> 0, part |-> NoDoc]

\* ids of the stored messages of a conversation
MessagesOf(conv) ==
    {i \in DOMAIN messages : messages[i].conversation_id = conv}

\* MessageService.is_participant: a record with left_at == None exists
is_participant(conv, u) ==
    /\ participants[<<conv, u>>].exists
    /\ ~participants[<<conv, u>>].left

\* variant: the increment without the left_at == None filter
IncUnreadWithLeft(parts, conv, sender) ==
    [k \in DOMAIN parts |->
        IF parts[k].exists /\ k[1] = conv /\ k[2] # sender
        THEN [parts[k] EXCEPT !.unread_count = @ + 1]
        ELSE parts[k]]

\* send_message: find(conversation_id, user_id != sender, left_at == None)
\*               .update({"$inc": {"unread_count": 1}})
IncUnread(parts, conv, sender) ==
    [k \in DOMAIN parts |->
        IF parts[k].exists /\ k[1] = conv /\ k[2] # sender /\ ~parts[k].left
        THEN [parts[k] EXCEPT !.unread_count = @ + 1]
        ELSE parts[k]]

\* mark_conversation_seen: the two assignments to the participant read
MarkSeenDoc(doc, mid) ==
    [doc EXCEPT !.last_seen_message_id = mid, !.unread_count = 0]

\* variant: the write keyed by conversation only, reaching every participant
SaveParticipantAll(parts, conv, u, doc) ==
    [k \in DOMAIN parts |->
        IF parts[k].exists /\ k[1] = conv
        THEN [parts[k] EXCEPT !.unread_count = doc.unread_count,
                              !.last_seen_message_id = doc.last_seen_message_id]
        ELSE parts[k]]

\* participant.save(): the whole document replaces the stored one
SaveParticipant(parts, conv, u, doc) ==
    [parts EXCEPT ![<<conv, u>>] = doc]

\* variant: the bulk update stopping short of the message named in the frame
MarkSeenMessagesBefore(msgs, conv, u, mid) ==
    [i \in DOMAIN msgs |->
        IF msgs[i].conversation_id = conv /\ msgs[i].sender_id # u
           /\ msgs[i].status # "SEEN" /\ i < mid
        THEN [msgs[i] EXCEPT !.status = "SEEN"]
        ELSE msgs[i]]

\* mark_conversation_seen: Message.find(conversation_id, sender_id != user,
\*                status != SEEN).update({"$set": {"status": SEEN}})
MarkSeenMessages(msgs, conv, u, mid) ==
    [i \in DOMAIN msgs |->
        IF msgs[i].conversation_id = conv /\ msgs[i].sender_id # u
           /\ msgs[i].status # "SEEN"
        THEN [msgs[i] EXCEPT !.status = "SEEN"]
        ELSE msgs[i]]

\* send_message: conv.last_message_* assignments before conv.save()
LastMessageDoc(id, content) ==
    [last_message_id |-> id,
     last_message_content |-> IF content = None THEN "[Media]" ELSE content]

\* websocket.send_json of an ERROR frame
ErrorFrame(message) ==
    [type |-> "ERROR", messageId |-> 0, message |-> message]
\* the "message" texts of the ERROR frames
MissingFields == "Invalid message: missing conversationId or content/media"
NotParticipant == "User is not a participant in this conversation"
SendFailed == "Failed to send message"
\* str(e) of the pydantic ValidationError raised for a bad media entry
InvalidMedia == "validation error for MediaAttachment"
\* websocket.send_json of the MESSAGE_ACK frame for a stored message
AckFrame(id) == [type |-> "MESSAGE_ACK", messageId |-> id]

\* connections whose endpoint is past its subscriptions and before cleanup
Subscribed(c) ==
    pc[c] \notin {"idle", "rejected_4001", "sadd", "expire", "srem", "scard",
                  "delete", "closed"}

\* redis publish_to_user(u, "message", payload) for each u in `users` that
\* is_user_online: every subscribed connection of u forwards the payload
Relay(ob, users, frame) ==
    [c \in Conn |->
        IF owner[c] \in users /\ is_user_online(owner[c]) /\ Subscribed(c)
        THEN Append(ob[c], frame)
        ELSE ob[c]]

\* active participants of a conversation other than u
OtherParticipants(conv, u) ==
    {v \in Users : v # u /\ is_participant(conv, v)}

(* ------------------ websocket frame handler: SEND_MESSAGE -------------- *)
\* the handler returns to the receive loop after writing `frame`
ReplyAndReturn(c, frame) ==
    /\ outbox' = [outbox EXCEPT ![c] = Append(@, frame)]
    /\ pc' = [pc EXCEPT ![c] = "open"]
    /\ cur' = [cur EXCEPT ![c] = NoCur]

\* receive_text / json.loads / handle_client_message reads the frame fields
RecvSendMessage(c, conv, content, media) ==
    /\ pc[c] = "open"
    /\ ninputs < MaxInputs
    /\ ninputs' = ninputs + 1
    /\ cur' = [cur EXCEPT ![c] = [NoCur EXCEPT !.conv = conv,
                  !.user = owner[c], !.content = content, !.media = media]]
    /\ pc' = [pc EXCEPT ![c] = "sm_validate"]
    /\ UNCHANGED <<idVars, brokerVars, relayVars, convVars, notifVars, presVars, participants, messages, conversations,
                   outbox, queue>>

\* missing conversationId or content/media: ERROR and return; invalid media
\* entries: MediaAttachment / MessageCreate raise ValidationError (a
\* ValueError): ERROR
SendValidate(c) ==
    /\ pc[c] = "sm_validate"
    /\ IF \/ cur[c].conv = None
          \/ (cur[c].content = None /\ cur[c].media = "none")
       THEN ReplyAndReturn(c, ErrorFrame(MissingFields))
       ELSE IF cur[c].media = "bad"
       THEN ReplyAndReturn(c, ErrorFrame(InvalidMedia))
       ELSE /\ pc' = [pc EXCEPT ![c] = "sm_check"]
            /\ UNCHANGED <<cur, outbox>>
    /\ UNCHANGED <<idVars, brokerVars, relayVars, convVars, notifVars, presVars, participants, messages, conversations,
                   queue, ninputs>>

\* variant: the membership test without the left_at == None filter
SendCheckAnyRecord(c) ==
    /\ pc[c] = "sm_check"
    /\ IF participants[<<cur[c].conv, cur[c].user>>].exists
       THEN /\ pc' = [pc EXCEPT ![c] = "sm_insert"]
            /\ UNCHANGED <<cur, outbox>>
       ELSE ReplyAndReturn(c, ErrorFrame(NotParticipant))
    /\ UNCHANGED <<idVars, brokerVars, relayVars, convVars, notifVars, presVars, participants, messages, conversations,
                   queue, ninputs>>

\* send_message: if not is_participant: raise ValueError -> ERROR frame
SendCheckParticipant(c) ==
    /\ pc[c] = "sm_check"
    /\ IF is_participant(cur[c].conv, cur[c].user)
       THEN /\ pc' = [pc EXCEPT ![c] = "sm_insert"]
            /\ UNCHANGED <<cur, outbox>>
       ELSE ReplyAndReturn(c, ErrorFrame(NotParticipant))
    /\ UNCHANGED <<idVars, brokerVars, relayVars, convVars, notifVars, presVars, participants, messages, conversations,
                   queue, ninputs>>

\* send_message: Message(...) is built and message.insert() succeeds
SendInsert(c) ==
    /\ pc[c] = "sm_insert"
    /\ messages' = Append(messages,
          [conversation_id |-> cur[c].conv, sender_id |-> cur[c].user,
           content |-> cur[c].content, status |-> "SENT"])
    /\ cur' = [cur EXCEPT ![c].msg = Len(messages) + 1]
    /\ pc' = [pc EXCEPT ![c] = "sm_conv_find"]
    /\ UNCHANGED <<idVars, brokerVars, relayVars, convVars, notifVars, presVars, participants, conversations, outbox,
                   queue, ninputs>>

\* variant: the handler without the "except Exception" branch's send_json
SendInsertFailsUnanswered(c) ==
    /\ pc[c] = "sm_insert"
    /\ pc' = [pc EXCEPT ![c] = "open"]
    /\ cur' = [cur EXCEPT ![c] = NoCur]
    /\ UNCHANGED <<idVars, brokerVars, relayVars, convVars, notifVars, presVars, participants, messages, conversations,
                   outbox, queue, ninputs>>

\* message.insert() raises (the store fails): except Exception -> ERROR
SendInsertFails(c) ==
    /\ pc[c] = "sm_insert"
    /\ ReplyAndReturn(c, ErrorFrame(SendFailed))
    /\ UNCHANGED <<idVars, brokerVars, relayVars, convVars, notifVars, presVars, participants, messages, conversations,
                   queue, ninputs>>

\* send_message: conv = Conversation.find_one(id)
SendConvFind(c) ==
    /\ pc[c] = "sm_conv_find"
    /\ pc' = [pc EXCEPT ![c] = "sm_conv_save"]
    /\ UNCHANGED <<idVars, brokerVars, relayVars, convVars, notifVars, presVars, chatVars>>

\* send_message: conv.last_message_* = ...; conv.save()
SendConvSave(c) ==
    /\ pc[c] = "sm_conv_save"
    /\ conversations' = [conversations EXCEPT ![cur[c].conv] =
                            LastMessageDoc(cur[c].msg, cur[c].content)]
    /\ pc' = [pc EXCEPT ![c] = "sm_inc"]
    /\ UNCHANGED <<idVars, brokerVars, relayVars, convVars, notifVars, presVars, participants, messages, cur, outbox,
                   queue, ninputs>>

\* send_message: the $inc update of the other active participants
SendIncUnread(c) ==
    /\ pc[c] = "sm_inc"
    /\ participants' = IncUnread(participants, cur[c].conv, cur[c].user)
    /\ pc' = [pc EXCEPT ![c] = "sm_publish"]
    /\ UNCHANGED <<idVars, brokerVars, relayVars, convVars, notifVars, presVars, messages, conversations, cur, outbox,
                   queue, ninputs>>

\* publish_message_event(MESSAGE_SENT, ...): published, or the publish
\* fails, is logged and returns False
SendPublish(c) ==
    /\ pc[c] = "sm_publish"
    /\ \/ queue' = Append(queue, [key |-> "message.sent",
              conversation_id |-> cur[c].conv, user_id |-> cur[c].user,
              message_id |-> cur[c].msg])
       \/ queue' = queue
    /\ pc' = [pc EXCEPT ![c] = "sm_ack"]
    /\ UNCHANGED <<idVars, brokerVars, relayVars, convVars, notifVars, presVars, participants, messages, conversations,
                   cur, outbox, ninputs>>

\* websocket.send_json(MESSAGE_ACK with msg.id)
SendAck(c) ==
    /\ pc[c] = "sm_ack"
    /\ ReplyAndReturn(c, AckFrame(cur[c].msg))
    /\ UNCHANGED <<idVars, brokerVars, relayVars, convVars, notifVars, presVars, participants, messages, conversations,
                   queue, ninputs>>

(* --------------------- mark_conversation_seen -------------------------- *)
\* a MARK_SEEN frame with conversationId and messageId
RecvMarkSeen(c, conv, mid) ==
    /\ pc[c] = "open"
    /\ ninputs < MaxInputs
    /\ mid \in MessagesOf(conv)
    /\ ninputs' = ninputs + 1
    /\ cur' = [cur EXCEPT ![c] = [NoCur EXCEPT !.conv = conv,
                  !.user = owner[c], !.mid = mid]]
    /\ pc' = [pc EXCEPT ![c] = "ms_find"]
    /\ UNCHANGED <<idVars, brokerVars, relayVars, convVars, notifVars, presVars, participants, messages, conversations,
                   outbox, queue>>

\* where a task continues after mark_conversation_seen returns
AfterMarkSeen(t) == IF t \in Conn THEN "ms_publish" ELSE "seen_relay"

\* participant = find_one(conversation_id, user_id)   (no left_at filter)
MarkSeenFind(t) ==
    /\ pc[t] = "ms_find"
    /\ cur' = [cur EXCEPT ![t].part =
                  participants[<<cur[t].conv, cur[t].user>>]]
    /\ pc' = [pc EXCEPT ![t] =
                  IF participants[<<cur[t].conv, cur[t].user>>].exists
                  THEN "ms_save" ELSE AfterMarkSeen(t)]
    /\ UNCHANGED <<idVars, brokerVars, relayVars, convVars, notifVars, presVars, participants, messages, conversations,
                   outbox, queue, ninputs>>

\* participant.last_seen_message_id = M; unread_count = 0; save()
MarkSeenSave(t) ==
    /\ pc[t] = "ms_save"
    /\ participants' = SaveParticipant(participants, cur[t].conv,
                           cur[t].user, MarkSeenDoc(cur[t].part, cur[t].mid))
    /\ pc' = [pc EXCEPT ![t] = "ms_update"]
    /\ UNCHANGED <<idVars, brokerVars, relayVars, convVars, notifVars, presVars, messages, conversations, cur, outbox,
                   queue, ninputs>>

\* the bulk status update
MarkSeenUpdate(t) ==
    /\ pc[t] = "ms_update"
    /\ messages' = MarkSeenMessages(messages, cur[t].conv, cur[t].user,
                                    cur[t].mid)
    /\ pc' = [pc EXCEPT ![t] = AfterMarkSeen(t)]
    /\ UNCHANGED <<idVars, brokerVars, relayVars, convVars, notifVars, presVars, participants, conversations, cur,
                   outbox, queue, ninputs>>

\* publish_message_event(MESSAGE_SEEN, ...), published or failing
MarkSeenPublish(c) ==
    /\ pc[c] = "ms_publish"
    /\ \/ queue' = Append(queue, [key |-> "message.seen",
              conversation_id |-> cur[c].conv, user_id |-> cur[c].user,
              message_id |-> cur[c].mid])
       \/ queue' = queue
    /\ pc' = [pc EXCEPT ![c] = "open"]
    /\ cur' = [cur EXCEPT ![c] = NoCur]
    /\ UNCHANGED <<idVars, brokerVars, relayVars, convVars, notifVars, presVars, participants, messages, conversations,
                   outbox, ninputs>>

(* --------------------------- message consumer -------------------------- *)
\* a message.delivered event for a stored message reaches the queue (the
\* consumer is bound to message.*; the publisher is a client of the broker)
PublishDelivered(m) ==
    /\ ninputs < MaxInputs
    /\ m \in DOMAIN messages
    /\ ninputs' = ninputs + 1
    /\ queue' = Append(queue, [key |-> "message.delivered",
              conversation_id |-> messages[m].conversation_id,
              user_id |-> None, message_id |-> m])
    /\ UNCHANGED <<pc, idVars, brokerVars, relayVars, convVars, notifVars, presVars, participants, messages,
                   conversations, cur, outbox>>

\* _process_message: decode the event and dispatch on the routing key
ConsumeStart(k) ==
    /\ pc[k] = "idle"
    /\ queue # <<>>
    /\ queue' = Tail(queue)
    /\ cur' = [cur EXCEPT ![k] = [NoCur EXCEPT
                  !.conv = Head(queue).conversation_id,
                  !.user = Head(queue).user_id,
                  !.msg = Head(queue).message_id,
                  !.mid = Head(queue).message_id]]
    /\ pc' = [pc EXCEPT ![k] =
                  CASE Head(queue).key = "message.sent" -> "sent_relay"
                    [] Head(queue).key = "message.delivered" -> "dlv_find"
                    [] Head(queue).key = "message.typing" -> "typing_relay"
                    [] OTHER -> "ms_find"]
    /\ UNCHANGED <<idVars, brokerVars, relayVars, convVars, notifVars, presVars, participants, messages, conversations,
                   outbox, ninputs>>

\* _handle_message_sent: NEW_MESSAGE to the other active participants that
\* are online, MESSAGE_ACK to the sender if online
HandleMessageSent(k) ==
    /\ pc[k] = "sent_relay"
    /\ outbox' = Relay(
          Relay(outbox, OtherParticipants(cur[k].conv, cur[k].user),
                [type |-> "NEW_MESSAGE", messageId |-> cur[k].msg]),
          {cur[k].user}, AckFrame(cur[k].msg))
    /\ pc' = [pc EXCEPT ![k] = "idle"]
    /\ cur' = [cur EXCEPT ![k] = NoCur]
    /\ UNCHANGED <<idVars, brokerVars, relayVars, convVars, notifVars, presVars, participants, messages, conversations,
                   queue, ninputs>>

\* _handle_message_delivered: msg = find_one(id); if msg.status == SENT
HandleDeliveredFind(k) ==
    /\ pc[k] = "dlv_find"
    /\ IF messages[cur[k].msg].status = "SENT"
       THEN /\ pc' = [pc EXCEPT ![k] = "dlv_save"]
            /\ cur' = cur
       ELSE /\ pc' = [pc EXCEPT ![k] = "idle"]
            /\ cur' = [cur EXCEPT ![k] = NoCur]
    /\ UNCHANGED <<idVars, brokerVars, relayVars, convVars, notifVars, presVars, participants, messages, conversations,
                   outbox, queue, ninputs>>

\* msg.status = DELIVERED; msg.save() writes the document read earlier;
\* then MESSAGE_STATUS to the sender if online
HandleDeliveredSave(k) ==
    /\ pc[k] = "dlv_save"
    /\ messages' = [messages EXCEPT ![cur[k].msg].status = "DELIVERED"]
    /\ outbox' = Relay(outbox, {messages[cur[k].msg].sender_id},
                       [type |-> "MESSAGE_STATUS", messageId |-> cur[k].msg])
    /\ pc' = [pc EXCEPT ![k] = "idle"]
    /\ cur' = [cur EXCEPT ![k] = NoCur]
    /\ UNCHANGED <<idVars, brokerVars, relayVars, convVars, notifVars, presVars, participants, conversations, queue,
                   ninputs>>

\* _handle_message_seen after mark_conversation_seen: MESSAGE_SEEN to the
\* other active participants that are online
HandleSeenRelay(k) ==
    /\ pc[k] = "seen_relay"
    /\ outbox' = Relay(outbox, OtherParticipants(cur[k].conv, cur[k].user),
                       [type |-> "MESSAGE_SEEN", messageId |-> cur[k].mid])
    /\ pc' = [pc EXCEPT ![k] = "idle"]
    /\ cur' = [cur EXCEPT ![k] = NoCur]
    /\ UNCHANGED <<idVars, brokerVars, relayVars, convVars, notifVars, presVars, participants, messages, conversations,
                   queue, ninputs>>

(* ------------------------------ TYPING --------------------------------- *)
\* typing_payload of _handle_typing
TypingFrame(conv, u) ==
    [type |-> "TYPING", messageId |-> 0, conversationId |-> conv,
     userId |-> u]

\* a TYPING frame with conversationId: the handler publishes the
\* message.typing event (published or failing) and returns
RecvTyping(c, conv) ==
    /\ pc[c] = "open"
    /\ ninputs < MaxInputs
    /\ ninputs' = ninputs + 1
    /\ \/ queue' = Append(queue, [key |-> "message.typing",
              conversation_id |-> conv, user_id |-> owner[c],
              message_id |-> 0])
       \/ queue' = queue
    /\ UNCHANGED <<pc, idVars, brokerVars, relayVars, convVars, notifVars,
                   presVars, participants, messages, conversations, cur,
                   outbox>>

\* _handle_typing: TYPING to the other active participants that are online
HandleTyping(k) ==
    /\ pc[k] = "typing_relay"
    /\ outbox' = Relay(outbox, OtherParticipants(cur[k].conv, cur[k].user),
                       TypingFrame(cur[k].conv, cur[k].user))
    /\ pc' = [pc EXCEPT ![k] = "idle"]
    /\ cur' = [cur EXCEPT ![k] = NoCur]
    /\ UNCHANGED <<idVars, brokerVars, relayVars, convVars, notifVars,
                   presVars, participants, messages, conversations, queue,
                   ninputs>>

(* ------------------- DIRECT conversation creation ---------------------- *)
\* (creator, other) of the create_conversation / direct/{user_id} requests
DirectRequests == {<<"A", "B">>, <<"B", "A">>, <<"A", "C">>}

\* locals of one create_conversation call; solo records that no other call
\* was in progress at any moment of this one
NoCall ==
    [pc |-> "idle", creator |-> None, other |-> None, ids |-> {},
     conv |-> 0, inserted |-> 0, solo |-> TRUE]

\* a request arrives: create_conversation(creator, DIRECT, [other])
CreateStart(p, creator, other) ==
    /\ call[p].pc = "idle"
    /\ ncalls < MaxCalls
    /\ ncalls' = ncalls + 1
    /\ call' = [q \in Procs |->
          IF q = p
          THEN [NoCall EXCEPT !.pc = "gd_find", !.creator = creator,
                   !.other = other,
                   !.solo = \A r \in Procs \ {p} : call[r].pc = "idle"]
          ELSE IF call[q].pc # "idle"
               THEN [call[q] EXCEPT !.solo = FALSE]
               ELSE call[q]]
    /\ UNCHANGED <<pc, idVars, brokerVars, relayVars, presVars, chatVars, notifVars, dconvs, dparts,
                   done>>

\* get_direct_conversation: user1_conv_ids = {conversation_id of user_id_1's
\* participant records with left_at == None}
GetDirectFind(p) ==
    /\ call[p].pc = "gd_find"
    /\ call' = [call EXCEPT ![p].pc = "gd_loop",
                   ![p].ids = {d \in 1..dconvs : <<d, call[p].creator>> \in dparts}]
    /\ UNCHANGED <<pc, idVars, brokerVars, relayVars, presVars, chatVars, notifVars, dconvs, dparts,
                   done, ncalls>>

\* the call returns conversation id: the request is answered
ReturnConversation(p, id) ==
    /\ done' = Append(done, [creator |-> call[p].creator,
                             other |-> call[p].other, id |-> id,
                             inserted |-> call[p].inserted,
                             solo |-> call[p].solo])
    /\ call' = [call EXCEPT ![p] = NoCall]

\* get_direct_conversation: one iteration of `for conv_id in user1_conv_ids`
\* (a Python set of str: the iteration order follows the per-process
\* randomised string hash, so any remaining id may come next) whose
\* user2_in is found: the DIRECT conversation is returned as existing
GetDirectFound(p) ==
    /\ call[p].pc = "gd_loop"
    /\ \E d \in call[p].ids :
          /\ <<d, call[p].other>> \in dparts
          /\ ReturnConversation(p, d)
    /\ UNCHANGED <<pc, idVars, brokerVars, relayVars, presVars, chatVars, notifVars, dconvs, dparts,
                   ncalls>>

\* get_direct_conversation: one iteration whose user2_in is None
GetDirectSkip(p) ==
    /\ call[p].pc = "gd_loop"
    /\ \E d \in call[p].ids :
          /\ <<d, call[p].other>> \notin dparts
          /\ call' = [call EXCEPT ![p].ids = @ \ {d}]
    /\ UNCHANGED <<pc, idVars, brokerVars, relayVars, presVars, chatVars, notifVars, dconvs, dparts,
                   done, ncalls>>

\* get_direct_conversation: the loop ends, return None
GetDirectNone(p) ==
    /\ call[p].pc = "gd_loop"
    /\ call[p].ids = {}
    /\ call' = [call EXCEPT ![p].pc = "insert_conv"]
    /\ UNCHANGED <<pc, idVars, brokerVars, relayVars, presVars, chatVars, notifVars, dconvs, dparts,
                   done, ncalls>>

\* create_conversation: conversation.insert()
CreateInsert(p) ==
    /\ call[p].pc = "insert_conv"
    /\ dconvs' = dconvs + 1
    /\ call' = [call EXCEPT ![p].pc = "add_creator", ![p].conv = dconvs + 1,
                   ![p].inserted = @ + 1]
    /\ UNCHANGED <<pc, idVars, brokerVars, relayVars, presVars, chatVars, notifVars, dparts, done,
                   ncalls>>

\* add_participant: find_one(conversation_id, user_id); insert when absent
AddParticipant(parts, conv, u) == parts \cup {<<conv, u>>}

\* create_conversation: add_participant(conversation.id, creator_id, role)
CreateAddCreator(p) ==
    /\ call[p].pc = "add_creator"
    /\ dparts' = AddParticipant(dparts, call[p].conv, call[p].creator)
    /\ call' = [call EXCEPT ![p].pc = "add_other",
                   ![p].inserted = @ + Cardinality(dparts' \ dparts)]
    /\ UNCHANGED <<pc, idVars, brokerVars, relayVars, presVars, chatVars, notifVars, dconvs, done,
                   ncalls>>

\* create_conversation: add_participant for data.participant_ids[0], return
CreateAddOther(p) ==
    /\ call[p].pc = "add_other"
    /\ dparts' = AddParticipant(dparts, call[p].conv, call[p].other)
    /\ done' = Append(done, [creator |-> call[p].creator,
                             other |-> call[p].other, id |-> call[p].conv,
                             inserted |-> call[p].inserted
                                          + Cardinality(dparts' \ dparts),
                             solo |-> call[p].solo])
    /\ call' = [call EXCEPT ![p] = NoCall]
    /\ UNCHANGED <<pc, idVars, brokerVars, relayVars, presVars, chatVars, notifVars, dconvs, ncalls>>

\* no conversation creation is in progress and none has happened
ConvIdle ==
    /\ dconvs = 0
    /\ dparts = {}
    /\ call = [p \in Procs |-> NoCall]
    /\ done = <<>>
    /\ ncalls = 0

(* --------------------------- notifications ----------------------------- *)
\* ROUTING_KEY_TO_TYPE: routing key -> NotificationType
ROUTING_KEY_TO_TYPE ==
    [k \in {"post.liked", "comment.replied"} |->
        IF k = "post.liked" THEN "POST_LIKED" ELSE "REPLY_THREAD"]

\* principals whose role passes require_moderator
Moderators == {"A"}
\* forum threads and their author_id
Threads == {"t1", "t2"}
AuthorOf(t) == IF t = "t1" THEN "A" ELSE "B"

\* Notification(user_id, actor_id, type)
NewNotification(user, actor, type) ==
    [user_id |-> user, actor_id |-> actor, type |-> type]

NoEvent == [routing_key |-> None, actor_id |-> None, user_id |-> None]
ConsumerIdle == [pc |-> "idle", event |-> NoEvent]

\* first word of a routing key (the keys are two words joined by a dot)
FirstWord(key) ==
    CASE key \in {"post.liked", "post.commented", "post.shared",
                  "post.deleted"} -> "post"
      [] key \in {"comment.mentioned", "comment.replied"} -> "comment"
      [] key \in {"team.join_request", "team.request_approved",
                  "team.request_rejected"} -> "team"
      [] OTHER -> None

\* NotificationConsumer.start: routing_patterns "post.*" and "comment.*",
\* each written by its first word
routing_patterns == {"post", "comment"}

\* the topic exchange: an event whose key matches a binding of the
\* notification queue is appended to it; any other event is dropped
Route(q, e) ==
    IF FirstWord(e.routing_key) \in routing_patterns THEN Append(q, e) ELSE q

\* publish_event(routing_key, {actor_id, user_id, ...}) by a route
PublishEvent(key, actor, user) ==
    /\ nops < MaxOps
    /\ nops' = nops + 1
    /\ nqueue' = Route(nqueue, [routing_key |-> key, actor_id |-> actor,
                                user_id |-> user])
    /\ UNCHANGED <<pc, idVars, brokerVars, relayVars, presVars, chatVars, convVars, notifications,
                   relayed, nproc, handled, settled, friendships, reports,
                   thread_status, join_requests>>

\* aio_pika `async with message.process()`: ack when the block ends
\* normally, reject without requeue when an exception leaves it
ProcessExit(escaped) == IF escaped THEN "reject" ELSE "ack"

\* _process_message: the try inside the block has `except
\* json.JSONDecodeError` and `except Exception`, which log and fall through:
\* whatever the handler's outcome, no exception leaves the block
Escapes(outcome) == FALSE

\* _process_message returns for event e with `outcome` (skipped by a check,
\* Notification stored, or the insert failed)
Settle(e, outcome) ==
    /\ handled' = handled \cup {e}
    /\ settled' = settled \cup
          {[event |-> e, outcome |-> outcome,
            result |-> ProcessExit(Escapes(outcome))]}

\* the queue hands the next event to _process_message
NotifReceive ==
    /\ nproc.pc = "idle"
    /\ nqueue # <<>>
    /\ nproc' = [pc |-> "n_check", event |-> Head(nqueue)]
    /\ nqueue' = Tail(nqueue)
    /\ UNCHANGED <<pc, idVars, brokerVars, relayVars, presVars, chatVars, convVars, notifications,
                   relayed, handled, settled, friendships, reports, thread_status, join_requests,
                   nops>>

\* variant: _process_message without the actor_id == user_id return
NotifCheckNoSelfSkip ==
    /\ nproc.pc = "n_check"
    /\ LET e == nproc.event IN
       IF \/ e.routing_key \notin DOMAIN ROUTING_KEY_TO_TYPE
          \/ e.actor_id = None
          \/ e.user_id = None
       THEN /\ nproc' = ConsumerIdle
            /\ Settle(e, "skipped")
       ELSE /\ nproc' = [nproc EXCEPT !.pc = "n_insert"]
            /\ UNCHANGED <<handled, settled>>
    /\ UNCHANGED <<pc, idVars, brokerVars, relayVars, presVars, chatVars, convVars, notifications,
                   relayed, nqueue, friendships, reports, thread_status, join_requests,
                   nops>>

\* _process_message: unknown routing key, missing actor_id / user_id and
\* actor_id == user_id return; otherwise the actor is looked up
NotifCheck ==
    /\ nproc.pc = "n_check"
    /\ LET e == nproc.event IN
       IF \/ e.routing_key \notin DOMAIN ROUTING_KEY_TO_TYPE
          \/ e.actor_id = None
          \/ e.user_id = None
          \/ e.actor_id = e.user_id
       THEN /\ nproc' = ConsumerIdle
            /\ Settle(e, "skipped")
       ELSE /\ nproc' = [nproc EXCEPT !.pc = "n_insert"]
            /\ UNCHANGED <<handled, settled>>
    /\ UNCHANGED <<pc, idVars, brokerVars, relayVars, presVars, chatVars, convVars, notifications,
                   relayed, nqueue, friendships, reports, thread_status, join_requests,
                   nops>>

\* _process_message: notification.insert()
NotifInsert ==
    /\ nproc.pc = "n_insert"
    /\ LET e == nproc.event IN
       notifications' = notifications \cup
           {NewNotification(e.user_id, e.actor_id,
                            ROUTING_KEY_TO_TYPE[e.routing_key])}
    /\ nproc' = [nproc EXCEPT !.pc = "n_online"]
    /\ UNCHANGED <<pc, idVars, brokerVars, relayVars, presVars, chatVars, convVars, relayed, nqueue,
                   handled, settled, friendships, reports, thread_status, join_requests, nops>>

\* _process_message: the insert raises; `except Exception` logs and returns
NotifInsertFails ==
    /\ nproc.pc = "n_insert"
    /\ nproc' = ConsumerIdle
    /\ Settle(nproc.event, "failed")
    /\ UNCHANGED <<pc, idVars, brokerVars, relayVars, presVars, chatVars, convVars, notifications,
                   relayed, nqueue, friendships, reports, thread_status, join_requests,
                   nops>>

\* _process_message: is_user_online(user_id), then publish_notification
NotifPublish ==
    /\ nproc.pc = "n_online"
    /\ LET e == nproc.event IN
       relayed' = IF is_user_online(e.user_id)
                  THEN relayed \cup
                       {NewNotification(e.user_id, e.actor_id,
                                        ROUTING_KEY_TO_TYPE[e.routing_key])}
                  ELSE relayed
    /\ nproc' = ConsumerIdle
    /\ Settle(nproc.event, "stored")
    /\ UNCHANGED <<pc, idVars, brokerVars, relayVars, presVars, chatVars, convVars, notifications,
                   nqueue, friendships, reports, thread_status, join_requests, nops>>

\* the Friendship between u and v, in either direction
FriendshipOf(u, v) ==
    {f \in friendships : {f.requester_id, f.addressee_id} = {u, v}}

\* POST /friends/request/{v} by u.  Requests answered with 400 (v is u, the
\* two are friends already, u's request is pending) change nothing
SendFriendRequest(u, v) ==
    /\ nops < MaxOps
    /\ nops' = nops + 1
    /\ u # v
    /\ IF FriendshipOf(u, v) = {}
       THEN /\ friendships' = friendships \cup
                   {[requester_id |-> u, addressee_id |-> v,
                     status |-> "PENDING"]}
            /\ notifications' = notifications \cup
                   {NewNotification(v, u, "FRIEND_REQUEST")}
       ELSE LET existing == CHOOSE f \in FriendshipOf(u, v) : TRUE IN
            /\ existing.status # "ACCEPTED"
            /\ existing.status = "PENDING" => existing.requester_id = v
            /\ friendships' = (friendships \ {existing}) \cup
                   {IF existing.status = "PENDING"
                    THEN [existing EXCEPT !.status = "ACCEPTED"]
                    ELSE [requester_id |-> u, addressee_id |-> v,
                          status |-> "PENDING"]}
            /\ notifications' = notifications
    /\ UNCHANGED <<pc, idVars, brokerVars, relayVars, presVars, chatVars, convVars, relayed, nqueue,
                   nproc, handled, settled, reports, thread_status, join_requests>>

\* POST /friends/respond/{friendship_id} by the addressee; PENDING only
RespondFriendRequest(u, accept) ==
    \E f \in friendships :
        /\ f.addressee_id = u
        /\ f.status = "PENDING"
        /\ friendships' = (friendships \ {f}) \cup
              {[f EXCEPT !.status = IF accept THEN "ACCEPTED" ELSE "REJECTED"]}
        /\ UNCHANGED <<pc, idVars, brokerVars, relayVars, presVars, chatVars, convVars, notifications,
                       relayed, nqueue, nproc, handled, settled, reports,
                       thread_status, join_requests, nops>>

\* POST /forum/report by any authenticated principal, target a thread
CreateReport(u, t) ==
    /\ nops < MaxOps
    /\ nops' = nops + 1
    /\ reports' = Append(reports, [reporter_id |-> u, target_id |-> t,
                                   status |-> "PENDING"])
    /\ UNCHANGED <<pc, idVars, brokerVars, relayVars, presVars, chatVars, convVars, notifications,
                   relayed, nqueue, nproc, handled, settled, friendships,
                   thread_status, join_requests>>

\* resolve_report: the content owner is tracked for HIDE_CONTENT,
\* DELETE_CONTENT and WARN_USER of a RESOLVED report
ContentOwner(r, status, action) ==
    IF status = "RESOLVED" /\ action \in {"HIDE_CONTENT", "DELETE_CONTENT",
                                          "WARN_USER"}
    THEN AuthorOf(reports[r].target_id) ELSE None

\* resolve_report: the other PENDING reports on the same target
OtherReports(r) ==
    {o \in DOMAIN reports \ {r} :
        /\ reports[o].target_id = reports[r].target_id
        /\ reports[o].status = "PENDING"}

\* PUT /admin/reports/{r}/resolve by moderator m.  The inserts and saves of
\* the handler only add notifications and close reports, so they are taken
\* in one step
ResolveReport(m, r, status, action) ==
    /\ m \in Moderators
    /\ r \in DOMAIN reports
    /\ reports[r].status = "PENDING"
    /\ LET content_owner_id == ContentOwner(r, status, action)
           owner_notification ==
               IF content_owner_id = None THEN {}
               ELSE {NewNotification(content_owner_id, m,
                        IF action = "WARN_USER" THEN "CONTENT_WARNING"
                        ELSE "CONTENT_REMOVED")}
           closed == OtherReports(r) \cup {r}
       IN /\ thread_status' =
                IF content_owner_id # None /\ action # "WARN_USER"
                THEN [thread_status EXCEPT ![reports[r].target_id] = "HIDDEN"]
                ELSE thread_status
          /\ reports' = [o \in DOMAIN reports |->
                IF o \in closed THEN [reports[o] EXCEPT !.status = status]
                ELSE reports[o]]
          /\ notifications' = notifications \cup owner_notification \cup
                {NewNotification(reports[o].reporter_id, m, "REPORT_RESOLVED") :
                    o \in closed}
    /\ UNCHANGED <<pc, idVars, brokerVars, relayVars, presVars, chatVars, convVars, relayed, nqueue,
                   nproc, handled, settled, friendships, join_requests, nops>>

\* the team of the model: active, not expired, never full, without a group
\* chat (conversation_id unset); owner_id
TeamOwner == "A"

\* TeamMember documents: the users whose request was approved
TeamMembers ==
    {join_requests[i].user_id : i \in {j \in DOMAIN join_requests :
                                          join_requests[j].status = "APPROVED"}}

\* POST /teams/{team}/join by u.  Requests answered with 400 (u owns the
\* team, is a member, has a pending request) change nothing
request_join_team(u) ==
    /\ nops < MaxOps
    /\ u # TeamOwner
    /\ u \notin TeamMembers
    /\ ~\E i \in DOMAIN join_requests :
           join_requests[i].user_id = u /\ join_requests[i].status = "PENDING"
    /\ nops' = nops + 1
    /\ join_requests' = Append(join_requests,
                               [user_id |-> u, status |-> "PENDING"])
    /\ nqueue' = Route(nqueue, [routing_key |-> "team.join_request",
                                actor_id |-> u, user_id |-> TeamOwner])
    /\ UNCHANGED <<pc, idVars, brokerVars, relayVars, presVars, chatVars, convVars,
                   notifications, relayed, nproc, handled, settled,
                   friendships, reports, thread_status>>

\* approve_join_request / reject_join_request answer anything but the
\* owner (403) acting on a request of the team (404) that is PENDING (400)
CanRespond(m, r) ==
    /\ m = TeamOwner
    /\ r \in DOMAIN join_requests
    /\ join_requests[r].status = "PENDING"

\* POST /teams/{team}/requests/{r}/approve by m: the request is saved as
\* APPROVED, the TeamMember inserted, and the requester notified
approve_join_request(m, r) ==
    /\ nops < MaxOps
    /\ CanRespond(m, r)
    /\ nops' = nops + 1
    /\ join_requests' = [join_requests EXCEPT ![r].status = "APPROVED"]
    /\ nqueue' = Route(nqueue, [routing_key |-> "team.request_approved",
                                actor_id |-> m,
                                user_id |-> join_requests[r].user_id])
    /\ UNCHANGED <<pc, idVars, brokerVars, relayVars, presVars, chatVars, convVars,
                   notifications, relayed, nproc, handled, settled,
                   friendships, reports, thread_status>>

\* POST /teams/{team}/requests/{r}/reject by m: the request is saved as
\* REJECTED and the requester notified
reject_join_request(m, r) ==
    /\ nops < MaxOps
    /\ CanRespond(m, r)
    /\ nops' = nops + 1
    /\ join_requests' = [join_requests EXCEPT ![r].status = "REJECTED"]
    /\ nqueue' = Route(nqueue, [routing_key |-> "team.request_rejected",
                                actor_id |-> m,
                                user_id |-> join_requests[r].user_id])
    /\ UNCHANGED <<pc, idVars, brokerVars, relayVars, presVars, chatVars, convVars,
                   notifications, relayed, nproc, handled, settled,
                   friendships, reports, thread_status>>

\* nothing is stored or queued on the notification side
NotifIdle ==
    /\ notifications = {}
    /\ relayed = {}
    /\ nqueue = <<>>
    /\ nproc = ConsumerIdle
    /\ handled = {}
    /\ settled = {}
    /\ friendships = {}
    /\ reports = <<>>
    /\ thread_status = [t \in Threads |-> "ACTIVE"]
    /\ join_requests = <<>>
    /\ nops = 0

(* ---------------------- broker: delivery to consumers ------------------ *)
\* the two consumer queues of the backend
ConsumerQueues == {"notification-service.queue", "message_consumer"}

\* NotificationConsumer.start: set_qos(prefetch_count=10) on its own channel
NotificationPrefetch == 10

\* prefetch limit of the channel a queue is consumed on; 0 is the broker's
\* default, no limit.  MessageConsumer.start consumes on the channel of
\* get_rabbitmq_channel, on which nothing calls set_qos
prefetch_count(q) ==
    IF q = "notification-service.queue" THEN NotificationPrefetch ELSE 0

\* an event is routed to queue q
BrokerPublish(q) ==
    /\ broker[q].ready + broker[q].unacked < MaxPending
    /\ broker' = [broker EXCEPT ![q].ready = @ + 1]
    /\ UNCHANGED <<pc, idVars, relayVars, presVars, chatVars, convVars,
                   notifVars>>

\* the broker delivers a ready event to the consumer of q, whose
\* _process_message starts as a task of its own: allowed while the
\* channel's unacknowledged deliveries are below its prefetch limit
BrokerDeliver(q) ==
    /\ broker[q].ready > 0
    /\ prefetch_count(q) = 0 \/ broker[q].unacked < prefetch_count(q)
    /\ broker' = [broker EXCEPT ![q].ready = @ - 1, ![q].unacked = @ + 1]
    /\ UNCHANGED <<pc, idVars, relayVars, presVars, chatVars, convVars,
                   notifVars>>

\* a handler leaves `async with message.process()`: the event is settled
BrokerSettle(q) ==
    /\ broker[q].unacked > 0
    /\ broker' = [broker EXCEPT ![q].unacked = @ - 1]
    /\ UNCHANGED <<pc, idVars, relayVars, presVars, chatVars, convVars,
                   notifVars>>

\* both queues are empty and no handler runs
BrokerIdle ==
    broker = [q \in ConsumerQueues |-> [ready |-> 0, unacked |-> 0]]

(* ------------------- relay: per-user notification topic ---------------- *)
\* payload published as the n-th one; forwarded to the socket as it is
NotificationFrame(n) == [type |-> "notification", messageId |-> n]

\* subscribe_user_notifications.listener: max_retries
max_retries == 10

\* a listener in `async for message in pubsub.listen()`, retry_count 0,
\* the confirmation of its subscribe already read
ListenerIdle ==
    [pc |-> "listening", retry_count |-> 0, pending |-> FALSE,
     resubscribed |-> FALSE]

\* connections whose endpoint has called subscribe_user_notifications, which
\* creates the listener task
ListenerStarted(c) ==
    pc[c] \notin {"idle", "rejected_4001", "sadd", "expire"}

\* connections subscribed to the topic notification:user:{u}: by their
\* endpoint, or again by their listener after the endpoint unsubscribed
Subscribers(u) ==
    {c \in Conn : owner[c] = u /\ (Subscribed(c) \/ listener[c].resubscribed)}

\* variant: the count taken from the PresenceSet
PresenceCount(u) == Cardinality(sockets[u])

\* client.publish(channel, message): the number of subscribers reached
PublishCount(u) == Cardinality(Subscribers(u))

\* publish_notification(u, payload) / publish_to_user(u, "notification",
\* payload): every subscribed pubsub receives the message, the count of
\* receivers is returned
PublishNotification(u) ==
    /\ ninputs < MaxInputs
    /\ ninputs' = ninputs + 1
    /\ inbox' = [c \in Conn |->
          IF c \in Subscribers(u) THEN Append(inbox[c], ninputs + 1)
          ELSE inbox[c]]
    /\ pubret' = [user |-> u, count |-> PublishCount(u)]
    /\ UNCHANGED <<pc, idVars, brokerVars, presVars, convVars, notifVars, lcur, listener,
                   participants, messages, conversations, cur, outbox, queue>>

\* variant: the listener taking the newest buffered message
NewestFirst(buf) == <<buf[Len(buf)]>> \o SubSeq(buf, 1, Len(buf) - 1)

\* pubsub.listen(): messages arrive in the order the server sent them
ListenOrder(buf) == buf

\* listener: `async for message in pubsub.listen()` yields the next
\* message; retry_count = 0
ListenerTake(c) ==
    /\ c \in Subscribers(owner[c])
    /\ listener[c].pc = "listening"
    /\ ~listener[c].pending
    /\ lcur[c] = 0
    /\ inbox[c] # <<>>
    /\ lcur' = [lcur EXCEPT ![c] = Head(ListenOrder(inbox[c]))]
    /\ inbox' = [inbox EXCEPT ![c] = Tail(ListenOrder(inbox[c]))]
    /\ listener' = [listener EXCEPT ![c].retry_count = 0]
    /\ UNCHANGED <<pc, idVars, brokerVars, presVars, chatVars, convVars, notifVars, pubret>>

\* listener: await callback(data) -> manager.send_message -> send_json
ListenerSend(c) ==
    /\ lcur[c] # 0
    /\ outbox' = [outbox EXCEPT ![c] = Append(@, NotificationFrame(lcur[c]))]
    /\ lcur' = [lcur EXCEPT ![c] = 0]
    /\ UNCHANGED <<pc, idVars, brokerVars, presVars, convVars, notifVars, inbox, pubret,
                   listener, participants, messages, conversations, cur, queue,
                   ninputs>>

\* manager.send_message: send_json raises, the error is logged
ListenerSendFails(c) ==
    /\ lcur[c] # 0
    /\ lcur' = [lcur EXCEPT ![c] = 0]
    /\ UNCHANGED <<pc, idVars, brokerVars, presVars, chatVars, convVars, notifVars, inbox,
                   pubret, listener>>

\* listener: pubsub.listen() yields the confirmation of a subscribe, a
\* message whose type is "subscribe": retry_count = 0, no callback
ListenYieldSubscribe(c) ==
    /\ listener[c].pc = "listening"
    /\ listener[c].pending
    /\ lcur[c] = 0
    /\ listener' = [listener EXCEPT ![c].retry_count = 0, ![c].pending = FALSE]
    /\ UNCHANGED <<pc, idVars, brokerVars, presVars, chatVars, convVars, notifVars, inbox,
                   lcur, pubret>>

\* listener: pubsub.listen() raises (the Redis connection failed, or the
\* pubsub was closed under it): `except Exception` counts the attempt and
\* starts the wait of min(2 ** retry_count, 30) seconds
ListenRaises(c) ==
    /\ ListenerStarted(c)
    /\ listener[c].pc = "listening"
    /\ lcur[c] = 0
    /\ listener' = [listener EXCEPT ![c].retry_count = @ + 1,
                                    ![c].pc = "sleeping"]
    /\ UNCHANGED <<pc, idVars, brokerVars, presVars, chatVars, convVars, notifVars, inbox,
                   lcur, pubret>>

\* listener: the sleep is over; pubsub.subscribe(channel) succeeds (ok: the
\* server will confirm it, and a pubsub the endpoint had unsubscribed is
\* subscribed again) or raises, which is logged; then the loop test
\* `retry_count < max_retries` lets the listener listen again or end
ListenResubscribe(c, ok) ==
    /\ listener[c].pc = "sleeping"
    /\ listener' = [listener EXCEPT
          ![c].pending = @ \/ ok,
          ![c].resubscribed = @ \/ (ok /\ ~Subscribed(c)),
          ![c].pc = IF listener[c].retry_count < max_retries
                    THEN "listening" ELSE "stopped"]
    /\ UNCHANGED <<pc, idVars, brokerVars, presVars, chatVars, convVars, notifVars, inbox,
                   lcur, pubret>>

\* no payload is buffered or being sent, nothing was published
RelayIdle ==
    /\ inbox = [c \in Conn |-> <<>>]
    /\ lcur = [c \in Conn |-> 0]
    /\ pubret = [user |-> None, count |-> 0]
    /\ listener = [c \in Conn |-> ListenerIdle]

(* ------------------------------ initial states ------------------------- *)
\* connections in `open` have completed connect(); the others never started
PresenceOf(open) ==
    /\ pc = [t \in Tasks |-> IF t \in open THEN "open" ELSE "idle"]
    /\ active_connections = [p \in Procs |-> [u \in Users |->
            {c \in open : ProcOf(c) = p /\ owner[c] = u}]]
    /\ socket_info = [p \in Procs |-> {c \in open : ProcOf(c) = p}]
    /\ sockets = [u \in Users |-> {c \in open : owner[c] = u}]
    /\ count = [c \in Conn |-> 0]
    /\ ttl = [u \in Users |->
                IF \E c \in open : owner[c] = u THEN TtlTicks ELSE NoTtl]

\* the store holds `members` and `msgs`; nothing is in flight
ChatStore(members, msgs) ==
    /\ participants = members
    /\ messages = msgs
    /\ conversations = [g \in Convs |->
          IF \E i \in DOMAIN msgs : msgs[i].conversation_id = g
          THEN LET last == CHOOSE i \in DOMAIN msgs :
                             /\ msgs[i].conversation_id = g
                             /\ \A j \in DOMAIN msgs :
                                  msgs[j].conversation_id = g => j <= i
               IN  LastMessageDoc(last, msgs[last].content)
          ELSE [last_message_id |-> 0, last_message_content |-> None]]
    /\ cur = [t \in Tasks |-> NoCur]
    /\ outbox = [c \in Conn |-> <<>>]
    /\ queue = <<>>
    /\ ninputs = 0

\* g1: A and B are members, C has left; g2: B and C are members
GroupMembers ==
    [k \in Convs \X Users |->
        CASE k \in {<<"g1", "A">>, <<"g1", "B">>, <<"g2", "B">>, <<"g2", "C">>}
               -> NewParticipant(FALSE)
          [] k = <<"g1", "C">> -> NewParticipant(TRUE)
          [] OTHER -> NoDoc]

InitPresence ==
    /\ owner \in [Conn -> {"A", "B"}]
    /\ ConvIdle
    /\ NotifIdle
    /\ RelayIdle
    /\ BrokerIdle
    /\ Authenticated
    /\ PresenceOf({})
    /\ ChatStore(GroupMembers, <<>>)

NextPresence ==
    \E c \in Conn :
        \/ ConnectLocal(c)
        \/ AddSocketSadd(c)
        \/ AddSocketExpire(c)
        \/ DisconnectLocal(c)
        \/ RemoveSocketSrem(c)
        \/ RemoveSocketScard(c)
        \/ RemoveSocketDelete(c)

SpecPresence == InitPresence /\ [][NextPresence]_vars

(* ------------------------------ chat specification --------------------- *)
\* connections 1 (A) and 2 (B) are open; the other connections belong to C
ChatOwner == [c \in Conn |-> IF c = 1 THEN "A" ELSE IF c = 2 THEN "B" ELSE "C"]

\* the store after A sent one text message to g1 (send_message ran to its
\* end: message stored as SENT, B's unread_count incremented)
FirstMessage ==
    <<[conversation_id |-> "g1", sender_id |-> "A", content |-> "hi",
       status |-> "SENT"]>>

InitChat ==
    /\ owner = ChatOwner
    /\ ConvIdle
    /\ NotifIdle
    /\ RelayIdle
    /\ BrokerIdle
    /\ Authenticated
    /\ PresenceOf({1, 2})
    /\ ChatStore(IncUnread(GroupMembers, "g1", "A"), FirstMessage)

\* SEND_MESSAGE frames a client sends: <<conversationId, content, media>>;
\* text or media to either conversation, then a frame without
\* conversationId, one without content and media, one with a bad media entry
SendFrames ==
    {<<"g1", "hi", "none">>, <<"g2", "hi", "none">>, <<"g1", None, "ok">>,
     <<None, "hi", "none">>, <<"g1", None, "none">>, <<"g1", "hi", "bad">>}

\* one step of the frame handler of connection c
HandlerStep(c) ==
    \/ \E f \in SendFrames : RecvSendMessage(c, f[1], f[2], f[3])
    \/ SendValidate(c)
    \/ SendCheckParticipant(c)
    \/ SendInsert(c)
    \/ SendInsertFails(c)
    \/ SendConvFind(c)
    \/ SendConvSave(c)
    \/ SendIncUnread(c)
    \/ SendPublish(c)
    \/ SendAck(c)
    \/ \E conv \in Convs, mid \in 1..MaxInputs : RecvMarkSeen(c, conv, mid)
    \/ MarkSeenFind(c)
    \/ MarkSeenSave(c)
    \/ MarkSeenUpdate(c)
    \/ MarkSeenPublish(c)

\* one step of a consumer task
ConsumerStep(k) ==
    \/ ConsumeStart(k)
    \/ HandleMessageSent(k)
    \/ HandleDeliveredFind(k)
    \/ HandleDeliveredSave(k)
    \/ MarkSeenFind(k)
    \/ MarkSeenSave(k)
    \/ MarkSeenUpdate(k)
    \/ HandleSeenRelay(k)

NextChat ==
    \/ \E c \in Conn : HandlerStep(c)
    \/ \E k \in ConsumerTasks : ConsumerStep(k)
    \/ \E m \in 1..MaxInputs : PublishDelivered(m)

SpecChat == InitChat /\ [][NextChat]_vars


\* the same store with connections 1 (A) and MaxConn (C, who left g1) open
InitChatLeft ==
    /\ owner = ChatOwner
    /\ ConvIdle
    /\ NotifIdle
    /\ RelayIdle
    /\ BrokerIdle
    /\ Authenticated
    /\ PresenceOf({1, MaxConn})
    /\ ChatStore(IncUnread(GroupMembers, "g1", "A"), FirstMessage)

SpecChatLeft == InitChatLeft /\ [][NextChat]_vars

(* ------------------------------ C1 ------------------------------------- *)
\* C1: for every interleaving of connect / disconnect of one principal over
\* several processes, is_user_online(principal) is true whenever one of its
\* connections has finished connect and not started disconnect, and false
\* when every connection that was opened has finished disconnect.
C1_OnlineIffOpen ==
    \A u \in Users :
        /\ (\E c \in Conn : owner[c] = u /\ pc[c] = "open")
              => is_user_online(u)
        /\ (\A c \in Conn : owner[c] = u => pc[c] \in {"idle", "closed"})
              => ~is_user_online(u)

\* the connection endpoints run under the asyncio event loop: a handler that
\* can take its next step (its await returns or raises) eventually does
FairSpecChat ==
    /\ SpecChat
    /\ \A c \in Conn : WF_vars(HandlerStep(c))
    /\ \A k \in ConsumerTasks : WF_vars(ConsumerStep(k))

\* no handler is running and no event waits in the queue
Quiescent ==
    /\ \A t \in Tasks : pc[t] \in {"idle", "open", "closed"}
    /\ queue = <<>>

\* positions of a connection that is handling a SEND_MESSAGE frame
SendPcs == {"sm_validate", "sm_check", "sm_insert", "sm_conv_find",
            "sm_conv_save", "sm_inc", "sm_publish", "sm_ack"}

(* ------------------------------ C2 ------------------------------------- *)
\* messages of conv sent by others that come after u's last-seen pointer
UnreadAfterPointer(conv, u) ==
    Cardinality({i \in MessagesOf(conv) :
        /\ messages[i].sender_id # u
        /\ i > participants[<<conv, u>>].last_seen_message_id})

\* C2: whenever no send or mark-seen is in progress, every active
\* participant's unread_count is >= 0 and equals the number of messages
\* sent by others after the participant's last_seen_message_id.
C2_UnreadMatchesPointer ==
    Quiescent =>
        \A conv \in Convs, u \in Users :
            is_participant(conv, u) =>
                /\ participants[<<conv, u>>].unread_count >= 0
                /\ participants[<<conv, u>>].unread_count
                      = UnreadAfterPointer(conv, u)

(* ------------------------------ C3 ------------------------------------- *)
Rank(status) ==
    CASE status = "SENT" -> 0 [] status = "DELIVERED" -> 1 [] OTHER -> 2

C4_MarkSeenFrame ==
    [][\A t \in Tasks :
          /\ (pc[t] = "ms_save" /\ pc'[t] # "ms_save") =>
                LET k == <<cur[t].conv, cur[t].user>> IN
                /\ participants'[k].unread_count = 0
                /\ participants'[k].last_seen_message_id = cur[t].mid
                /\ \A j \in DOMAIN participants \ {k} :
                      participants'[j] = participants[j]
          /\ (pc[t] \in {"ms_find", "ms_update"} /\ pc'[t] # pc[t]) =>
                participants' = participants]_vars

\* a participant has marked another participant's messages seen while that
\* other participant of the same conversation still has unread messages
C4_Witness ==
    \E conv \in Convs, u \in Users, v \in Users :
        /\ u # v
        /\ participants[<<conv, u>>].last_seen_message_id # 0
        /\ participants[<<conv, u>>].unread_count = 0
        /\ participants[<<conv, v>>].unread_count > 0
        /\ participants[<<conv, v>>].last_seen_message_id = 0
        /\ \E i \in MessagesOf(conv) :
              messages[i].sender_id = v /\ messages[i].status = "SEEN"

(* ------------------------------ C5 ------------------------------------- *)
\* C5: over the steps of one send_message, the $inc step adds exactly 1 to
\* the unread_count of every participant of that conversation other than
\* the sender whose left_at is unset and changes nobody else's, and no
\* other step of the send changes any unread_count; this holds under every
\* interleaving with other sends.
C5_SendIncrements ==
    [][\A c \in Conn :
          (pc[c] \in SendPcs /\ pc'[c] # pc[c]) =>
              \A k \in DOMAIN participants :
                  participants'[k].unread_count =
                      participants[k].unread_count +
                      (IF /\ pc[c] = "sm_inc"
                          /\ k[1] = cur[c].conv
                          /\ k[2] # cur[c].user
                          /\ participants[k].exists
                          /\ ~participants[k].left
                       THEN 1 ELSE 0)]_vars

\* two sends to g1, by A and by B, ran concurrently and both are past
\* their $inc: B counts A's two messages, A counts B's one, C (left) none
C5_Witness ==
    /\ pc[1] \in {"sm_publish", "sm_ack"}
    /\ pc[2] \in {"sm_publish", "sm_ack"}
    /\ cur[1].conv = "g1"
    /\ cur[2].conv = "g1"
    /\ participants[<<"g1", "B">>].unread_count = 2
    /\ participants[<<"g1", "A">>].unread_count = 1
    /\ participants[<<"g1", "C">>].unread_count = 0
    /\ participants[<<"g2", "C">>].unread_count = 0

(* ------------------------------ C10 ------------------------------------ *)
\* C10: a connection leaves the handling of a SEND_MESSAGE frame only by
\* writing one MESSAGE_ACK or ERROR frame to its own socket and returning to
\* the receive loop, and every SEND_MESSAGE frame being handled is
\* eventually answered that way.
C10_SendAlwaysAnswered ==
    /\ [][\A c \in Conn :
            (pc[c] \in SendPcs /\ pc'[c] \notin SendPcs) =>
                /\ pc'[c] = "open"
                /\ Len(outbox'[c]) = Len(outbox[c]) + 1
                /\ SubSeq(outbox'[c], 1, Len(outbox[c])) = outbox[c]
                /\ outbox'[c][Len(outbox'[c])].type
                      \in {"MESSAGE_ACK", "ERROR"}]_vars
    /\ \A c \in Conn : (pc[c] \in SendPcs) ~> (pc[c] = "open")

\* both outcomes happened on one connection: an ERROR, then a MESSAGE_ACK
C10_Witness ==
    \E c \in Conn :
        /\ pc[c] = "open"
        /\ Len(outbox[c]) = 2
        /\ outbox[c][1].type = "ERROR"
        /\ outbox[c][2].type = "MESSAGE_ACK"

(* ---------------- conversation creation specification ------------------ *)
InitConv ==
    /\ owner = ChatOwner
    /\ ConvIdle
    /\ NotifIdle
    /\ RelayIdle
    /\ BrokerIdle
    /\ Authenticated
    /\ PresenceOf({})
    /\ ChatStore(GroupMembers, <<>>)

NextConv ==
    \E p \in Procs :
        \/ \E r \in DirectRequests : CreateStart(p, r[1], r[2])
        \/ GetDirectFind(p)
        \/ GetDirectFound(p)
        \/ GetDirectSkip(p)
        \/ GetDirectNone(p)
        \/ CreateInsert(p)
        \/ CreateAddCreator(p)
        \/ CreateAddOther(p)

SpecConv == InitConv /\ [][NextConv]_vars

(* ------------------------------ C6 ------------------------------------- *)
\* C6: when two create_conversation calls of type DIRECT for the same two
\* principals (in either order) run one after the other, with no other
\* call in progress during either, both return the same conversation id
\* and the second inserts no Conversation and no participant record.
C6_SequentialCreateSame ==
    \A i \in 1..(Len(done) - 1) :
        (/\ done[i].solo
         /\ done[i + 1].solo
         /\ {done[i].creator, done[i].other}
               = {done[i + 1].creator, done[i + 1].other})
        => /\ done[i + 1].id = done[i].id
           /\ done[i + 1].inserted = 0

(* ------------------- notification specification ------------------------ *)
\* events the routes publish, <<routing key, actor_id, user_id>>: an actor
\* acting on their own content, on the content of an online and of an
\* offline principal, a key without notification type, a missing actor_id
Events ==
    {<<"post.liked", "A", "A">>, <<"post.liked", "A", "B">>,
     <<"comment.replied", "B", "C">>, <<"post.deleted", "A", "B">>,
     <<"comment.replied", None, "B">>}

\* friend requests <<current user, user_id>>, one of them to oneself
FriendRequests == {<<"A", "B">>, <<"B", "A">>, <<"C", "C">>}
\* reports <<reporter, thread>>: by a moderator, on a moderator's thread,
\* and a second one on the same thread
ReportRequests == {<<"A", "t2">>, <<"B", "t1">>, <<"C", "t1">>}
\* ReportResolve bodies <<status, action>>
Resolutions ==
    {<<"RESOLVED", "HIDE_CONTENT">>, <<"RESOLVED", "WARN_USER">>,
     <<"RESOLVED", "IGNORE">>, <<"DISMISSED", None>>}

\* A and B are connected (online), C is not
InitNotif ==
    /\ owner = ChatOwner
    /\ ConvIdle
    /\ NotifIdle
    /\ RelayIdle
    /\ BrokerIdle
    /\ Authenticated
    /\ PresenceOf({1, 2})
    /\ ChatStore(GroupMembers, <<>>)

NextNotif ==
    \/ \E e \in Events : PublishEvent(e[1], e[2], e[3])
    \/ NotifReceive
    \/ NotifCheck
    \/ NotifInsert
    \/ NotifInsertFails
    \/ NotifPublish
    \/ \E f \in FriendRequests : SendFriendRequest(f[1], f[2])
    \/ \E u \in Users, accept \in BOOLEAN : RespondFriendRequest(u, accept)
    \/ \E c \in ReportRequests : CreateReport(c[1], c[2])
    \/ \E m \in Users, r \in 1..MaxOps, d \in Resolutions :
          ResolveReport(m, r, d[1], d[2])

SpecNotif == InitNotif /\ [][NextNotif]_vars

(* ------------------------------ C7 ------------------------------------- *)
\* C7: the notification consumer never goes on to persist or publish for
\* an event whose actor_id equals its user_id: no Notification of a
\* consumer type has actor_id = user_id, no relayed payload has, and the
\* handler is never past its checks with such an event.
C7_ConsumerSkipsSelf ==
    /\ \A n \in notifications :
          n.type \in {ROUTING_KEY_TO_TYPE[k] : k \in DOMAIN ROUTING_KEY_TO_TYPE}
             => n.actor_id # n.user_id
    /\ \A n \in relayed : n.actor_id # n.user_id
    /\ nproc.pc \in {"n_insert", "n_online"} =>
          nproc.event.actor_id # nproc.event.user_id

\* an event with a known routing key and actor = recipient has been
\* processed, and so has one that was persisted and relayed
C7_Witness ==
    /\ \E e \in handled :
          /\ e.routing_key \in DOMAIN ROUTING_KEY_TO_TYPE
          /\ e.actor_id # None
          /\ e.actor_id = e.user_id
    /\ relayed # {}
    /\ nproc.pc = "idle"
    /\ nqueue = <<>>

(* ------------------------------ C8 ------------------------------------- *)
\* C8: no persisted Notification has actor_id equal to user_id, whichever
\* path inserted it (queue consumer, friend-request route, report
\* resolution route).
C8_NoSelfNotification ==
    \A n \in notifications : n.actor_id # n.user_id

(* -------------------- end-to-end scenario specification ---------------- *)
\* g1 is the DIRECT conversation of A and B, nobody else takes part
DirectMembers ==
    [k \in Convs \X Users |->
        IF k \in {<<"g1", "A">>, <<"g1", "B">>}
        THEN NewParticipant(FALSE) ELSE NoDoc]

\* A is connected (connection 1), B is not; nothing is stored yet
InitScenario ==
    /\ owner = ChatOwner
    /\ ConvIdle
    /\ NotifIdle
    /\ RelayIdle
    /\ BrokerIdle
    /\ Authenticated
    /\ PresenceOf({1})
    /\ ChatStore(DirectMembers, <<>>)

\* A's frame has been answered
FirstFrameAnswered == ninputs >= 1 /\ pc[1] = "open"

\* A sends one SEND_MESSAGE with content for g1 and the store works; B
\* connects (connection 2) after A's frame arrived and, once A was answered,
\* sends MARK_SEEN with the id of the stored message; the consumer processes
\* the published events
NextScenario ==
    \/ /\ ninputs = 0
       /\ \E media \in {"none", "ok"} : RecvSendMessage(1, "g1", "hi", media)
    \/ \E c \in {1, 2} :
          \/ SendValidate(c)
          \/ SendCheckParticipant(c)
          \/ SendInsert(c)
          \/ SendConvFind(c)
          \/ SendConvSave(c)
          \/ SendIncUnread(c)
          \/ SendPublish(c)
          \/ SendAck(c)
          \/ MarkSeenPublish(c)
    \/ /\ ninputs >= 1
       /\ \/ ConnectLocal(2)
          \/ AddSocketSadd(2)
          \/ AddSocketExpire(2)
    \/ /\ FirstFrameAnswered
       /\ ninputs = 1
       /\ \E mid \in DOMAIN messages : RecvMarkSeen(2, "g1", mid)
    \/ \E t \in {2} \cup ConsumerTasks :
          \/ MarkSeenFind(t)
          \/ MarkSeenSave(t)
          \/ MarkSeenUpdate(t)
    \/ \E k \in ConsumerTasks :
          \/ ConsumeStart(k)
          \/ HandleMessageSent(k)
          \/ HandleSeenRelay(k)

SpecScenario == InitScenario /\ [][NextScenario]_vars

(* ------------------------------ C9 ------------------------------------- *)
\* C9: in the scenario, once A's SEND_MESSAGE is answered one message is
\* stored and A's connection holds a MESSAGE_ACK with its id; until B's
\* MARK_SEEN arrives B's unread_count for the conversation is 1; once B's
\* MARK_SEEN for that message is handled B's unread_count is 0 and the
\* message's status is SEEN, and both stay so.
C9_Scenario ==
    /\ FirstFrameAnswered =>
          /\ Len(messages) = 1
          /\ messages[1].conversation_id = "g1"
          /\ messages[1].sender_id = "A"
          /\ \E i \in DOMAIN outbox[1] : outbox[1][i] = AckFrame(1)
    /\ (FirstFrameAnswered /\ ninputs = 1) =>
          participants[<<"g1", "B">>].unread_count = 1
    /\ (ninputs = 2 /\ pc[2] = "open") =>
          /\ participants[<<"g1", "B">>].unread_count = 0
          /\ participants[<<"g1", "B">>].last_seen_message_id = 1
          /\ messages[1].status = "SEEN"

\* the scenario ran to its end: both frames answered, all events consumed
C9_Witness ==
    /\ ninputs = 2
    /\ pc[1] = "open"
    /\ pc[2] = "open"
    /\ Quiescent
    /\ messages[1].status = "SEEN"
    /\ \E i \in DOMAIN outbox[1] : outbox[1][i].type = "MESSAGE_SEEN"


(* ------------------------------ C11 ------------------------------------ *)
\* C11: while a connection handles a SEND_MESSAGE frame naming a
\* conversation in which its principal is not an active participant, its
\* steps store no Message, change no unread counter and no conversation
\* field, publish no event and leave the registry and the PresenceSets as
\* they are; the handler ends by writing the ERROR frame and is back in
\* the receive loop.
C11_NonParticipantRejected ==
    [][\A c \in Conn :
          (/\ pc[c] \in {"sm_validate", "sm_check"}
           /\ cur[c].conv \in Convs
           /\ ~is_participant(cur[c].conv, cur[c].user)
           /\ pc'[c] # pc[c])
          => /\ messages' = messages
             /\ participants' = participants
             /\ conversations' = conversations
             /\ queue' = queue
             /\ presVars' = presVars
             /\ \/ pc'[c] = "sm_check" /\ outbox' = outbox
                \/ /\ pc'[c] = "open"
                   /\ outbox'[c][Len(outbox'[c])].type = "ERROR"
                   /\ Len(outbox'[c]) = Len(outbox[c]) + 1
             /\ pc[c] = "sm_check" =>
                   /\ pc'[c] = "open"
                   /\ outbox'[c] = Append(outbox[c], ErrorFrame(NotParticipant))]_vars

\* C, who left g1, was refused a frame for g1 and then had a frame for g2
\* acknowledged on the same connection
C11_Witness ==
    /\ Len(outbox[MaxConn]) = 2
    /\ outbox[MaxConn][1] = ErrorFrame(NotParticipant)
    /\ outbox[MaxConn][2].type = "MESSAGE_ACK"
    /\ MaxConn \in sockets["C"]
    /\ messages[Len(messages)].conversation_id = "g2"


(* ---------------- receive loop: frames that are not requests ----------- *)
\* text frames a client can send besides SEND_MESSAGE and MARK_SEEN with
\* ids: text that is not JSON; JSON that is not an object (list, string,
\* number, null); an object with an unknown or no "type"; TYPING without
\* conversationId; MARK_SEEN without conversationId / messageId; ping
OtherFrames ==
    {"not_json", "non_object", "unknown_type", "typing_no_id",
     "mark_seen_no_id", "ping"}

\* websocket.send_json({"type": "pong"})
PongFrame == [type |-> "pong", messageId |-> 0]

\* receive_text, json.loads and handle_client_message for such a frame.
\* JSONDecodeError is passed over; handle_client_message starts with
\* message.get("type"), which raises AttributeError for a value that is
\* not a dict: neither the JSONDecodeError nor the WebSocketDisconnect
\* clause catches it, the outer `except Exception` logs it and the
\* endpoint goes to its `finally` block
RecvOtherFrame(c, kind) ==
    /\ pc[c] = "open"
    /\ ninputs < MaxInputs
    /\ ninputs' = ninputs + 1
    /\ pc' = [pc EXCEPT ![c] = IF kind = "non_object" THEN "cleanup" ELSE @]
    /\ outbox' = [outbox EXCEPT ![c] =
                     IF kind = "ping" THEN Append(@, PongFrame) ELSE @]
    /\ UNCHANGED <<idVars, brokerVars, relayVars, convVars, notifVars, presVars, participants, messages,
                   conversations, cur, queue>>

\* the endpoint's finally block: both unsubscribes, then the local part of
\* manager.disconnect
EndpointCleanup(c) ==
    /\ pc[c] = "cleanup"
    /\ pc' = [pc EXCEPT ![c] = "srem"]
    /\ active_connections' =
         [active_connections EXCEPT ![ProcOf(c)][owner[c]] = @ \ {c}]
    /\ socket_info' = [socket_info EXCEPT ![ProcOf(c)] = @ \ {c}]
    /\ UNCHANGED <<idVars, brokerVars, relayVars, convVars, notifVars, sockets, count, ttl, chatVars>>

(* ------------------ receive loop specification ------------------------- *)
\* every principal's client connects, sends frames and disconnects
InitFrames ==
    /\ owner = ChatOwner
    /\ ConvIdle
    /\ NotifIdle
    /\ RelayIdle
    /\ BrokerIdle
    /\ Authenticated
    /\ PresenceOf({})
    /\ ChatStore(GroupMembers, <<>>)

NextFrames ==
    \E c \in Conn :
        \/ ConnectLocal(c)
        \/ AddSocketSadd(c)
        \/ AddSocketExpire(c)
        \/ \E kind \in OtherFrames : RecvOtherFrame(c, kind)
        \/ EndpointCleanup(c)
        \/ DisconnectLocal(c)
        \/ RemoveSocketSrem(c)
        \/ RemoveSocketScard(c)
        \/ RemoveSocketDelete(c)

SpecFrames == InitFrames /\ [][NextFrames]_vars

(* ------------------------------ C12 ------------------------------------ *)
\* C12: receiving a text frame that is not a well-formed client frame
\* changes no durable state and leaves every connection where it was: open,
\* in the registry of its process and in the PresenceSet.
C12_MalformedDropped ==
    [][ninputs' # ninputs =>
          /\ pc' = pc
          /\ presVars' = presVars
          /\ participants' = participants
          /\ messages' = messages
          /\ conversations' = conversations
          /\ queue' = queue]_vars


(* ----------------------- handshake specification ----------------------- *)
\* tokens clients present: the valid tokens of A and B, an expired one, one
\* that is not a JWT, one signed with another key, one naming an id without
\* User document, one naming the deactivated user D
Tokens ==
    {TokenFor("A"), TokenFor("B"), NewToken("A", TRUE, TRUE, TRUE),
     NewToken("A", FALSE, FALSE, FALSE), NewToken("B", TRUE, FALSE, FALSE),
     TokenFor("X"), TokenFor("D")}

\* the principal a connection would be registered for
SubjectOf(tok) == IF tok.sub \in Users THEN tok.sub ELSE "A"

InitHandshake ==
    /\ token \in [Conn -> Tokens]
    /\ owner = [c \in Conn |-> SubjectOf(token[c])]
    /\ ConvIdle
    /\ NotifIdle
    /\ RelayIdle
    /\ BrokerIdle
    /\ PresenceOf({})
    /\ ChatStore(GroupMembers, <<>>)

\* websocket_endpoint: verify_websocket_token returned the user:
\* manager.connect
HandshakeAccept(c) ==
    /\ verify_websocket_token(token[c]) = owner[c]
    /\ ConnectLocal(c)

NextHandshake ==
    \E c \in Conn :
        \/ HandshakeReject(c)
        \/ HandshakeAccept(c)
        \/ AddSocketSadd(c)
        \/ AddSocketExpire(c)
        \/ DisconnectLocal(c)
        \/ RemoveSocketSrem(c)
        \/ RemoveSocketScard(c)
        \/ RemoveSocketDelete(c)

SpecHandshake == InitHandshake /\ [][NextHandshake]_vars

(* ------------------------------ C13 ------------------------------------ *)
\* a token that is expired, malformed, wrongly signed, or names an unknown
\* or inactive user
BadToken(tok) ==
    \/ tok.expired
    \/ ~tok.wellformed
    \/ ~tok.signed
    \/ tok.sub \notin {"A", "B", "C"}

\* C13: a connection whose handshake token is bad is either not yet
\* handled or closed with 4001; it is in no process's active_connections or
\* socket_info, in no PresenceSet, and has no relay subscription.
C13_BadTokenRejected ==
    \A c \in Conn :
        BadToken(token[c]) =>
            /\ pc[c] \in {"idle", "rejected_4001"}
            /\ ~Subscribed(c)
            /\ \A p \in Procs :
                  /\ c \notin socket_info[p]
                  /\ \A u \in Users : c \notin active_connections[p][u]
            /\ \A u \in Users : c \notin sockets[u]

\* an expired token and the token of the deactivated user were refused
\* with 4001 while a valid token was accepted and its connection is open
C13_Witness ==
    \E c1 \in Conn, c2 \in Conn, c3 \in Conn :
        /\ pc[c1] = "rejected_4001" /\ token[c1].expired
        /\ pc[c2] = "rejected_4001" /\ token[c2].sub = "D"
        /\ pc[c3] = "open" /\ c3 \in sockets[owner[c3]]


(* -------------------------- relay specification ------------------------ *)
\* connections 1 and 2 are A's (two devices), the others B's; the clients
\* of connections 1 and 2 connect and disconnect
RelayOwner == [c \in Conn |-> IF c \in {1, 2} THEN "A" ELSE "B"]

InitRelay ==
    /\ owner = RelayOwner
    /\ ConvIdle
    /\ NotifIdle
    /\ RelayIdle
    /\ BrokerIdle
    /\ Authenticated
    /\ PresenceOf({})
    /\ ChatStore(GroupMembers, <<>>)

NextRelay ==
    \/ \E u \in {"A", "B"} : PublishNotification(u)
    \/ \E c \in {1, 2} :
          \/ ConnectLocal(c)
          \/ AddSocketSadd(c)
          \/ AddSocketExpire(c)
          \/ ListenerTake(c)
          \/ ListenerSend(c)
          \/ ListenerSendFails(c)
          \/ DisconnectLocal(c)
          \/ RemoveSocketSrem(c)
          \/ RemoveSocketScard(c)
          \/ RemoveSocketDelete(c)

SpecRelay == InitRelay /\ [][NextRelay]_vars

(* ------------------------------ C14 ------------------------------------ *)
\* the payload numbers of the notification frames written to connection c
Forwarded(c) ==
    LET idx == {i \in DOMAIN outbox[c] : outbox[c][i].type = "notification"}
    IN {outbox[c][i].messageId : i \in idx}

\* C14: on every connection the payloads of the topic are forwarded in
\* publish order: the frames on the socket carry increasing publish
\* numbers, the payload whose callback is running was published after
\* every payload already forwarded and before every payload still waiting.
C14_ForwardedInOrder ==
    \A c \in Conn :
        /\ \A i \in DOMAIN outbox[c], j \in DOMAIN outbox[c] :
              (/\ i < j
               /\ outbox[c][i].type = "notification"
               /\ outbox[c][j].type = "notification")
              => outbox[c][i].messageId < outbox[c][j].messageId
        /\ lcur[c] # 0 => \A n \in Forwarded(c) : n < lcur[c]
        /\ \A k \in DOMAIN inbox[c] :
              /\ lcur[c] < inbox[c][k]
              /\ \A n \in Forwarded(c) : n < inbox[c][k]

\* two payloads were published to the topic and a subscribed connection
\* has forwarded both
C14_Witness ==
    \E c \in Conn :
        /\ Len(outbox[c]) = 2
        /\ outbox[c][1] = NotificationFrame(1)
        /\ outbox[c][2] = NotificationFrame(2)

(* ------------------------------ C15 ------------------------------------ *)
\* C15: a publish to the topic of a principal without subscriber returns 0
\* and changes nothing but the count of publishes: no buffer, no durable
\* state, no PresenceSet and no connection.
C15_PublishNoSubscriber ==
    [][(ninputs' = ninputs + 1 /\ Subscribers(pubret'.user) = {})
          => /\ pubret'.count = 0
             /\ inbox' = inbox
             /\ lcur' = lcur
             /\ presVars' = presVars
             /\ pc' = pc
             /\ outbox' = outbox
             /\ participants' = participants
             /\ messages' = messages
             /\ conversations' = conversations
             /\ notifications' = notifications]_vars

\* a payload was published for B, none of whose connections was ever
\* opened, while A's connections were subscribed: nobody received it
C15_Witness ==
    /\ ninputs = 1
    /\ pubret = [user |-> "B", count |-> 0]
    /\ Subscribers("A") = {1, 2}
    /\ \A c \in Conn : inbox[c] = <<>> /\ lcur[c] = 0 /\ outbox[c] = <<>>


(* ------------------------------ C16 ------------------------------------ *)
\* C16: at most one DIRECT conversation has a given pair of principals as
\* its active participants, also while create_conversation calls for the
\* pair run concurrently.
C16_OneDirectPerPair ==
    \A d1 \in 1..dconvs, d2 \in 1..dconvs :
        \A u \in Users, v \in Users :
            (/\ u # v
             /\ {<<d1, u>>, <<d1, v>>, <<d2, u>>, <<d2, v>>} \subseteq dparts)
            => d1 = d2


(* ------------------------------ C17 ------------------------------------ *)
\* C17: an event whose handler failed in its persistence step is rejected
\* (negative acknowledgement, no requeue), and an event is acknowledged
\* positively only if its handler did not fail.
C17_AckOnlyAfterPersist ==
    \A s \in settled :
        /\ s.outcome = "failed" => s.result = "reject"
        /\ s.result = "ack" => s.outcome # "failed"


(* ------------------------------ C18 ------------------------------------ *)
\* C18: the bulk update of mark_conversation_seen(conversation, user, M)
\* changes to SEEN only messages of that conversation, sent by others, that
\* were created no later than message M (message ids grow with creation);
\* every other message keeps its status.
C18_SeenOnlyUpToM ==
    [][\A t \in Tasks :
          (pc[t] = "ms_update" /\ pc'[t] # "ms_update") =>
              \A i \in DOMAIN messages :
                  messages'[i].status # messages[i].status =>
                      /\ messages[i].conversation_id = cur[t].conv
                      /\ messages[i].sender_id # cur[t].user
                      /\ i <= cur[t].mid
                      /\ messages'[i].status = "SEEN"]_vars


(* ------------------------- expiry of presence sets --------------------- *)
\* the Redis clock advances one step: every key with an expiry comes one
\* step closer to it, and a key that reaches it is removed with all its
\* members
Tick ==
    /\ \E u \in Users : ttl[u] # NoTtl
    /\ ttl' = [u \in Users |->
                 IF ttl[u] = NoTtl \/ ttl[u] = 1 THEN NoTtl ELSE ttl[u] - 1]
    /\ sockets' = [u \in Users |-> IF ttl[u] = 1 THEN {} ELSE sockets[u]]
    /\ UNCHANGED <<pc, idVars, brokerVars, relayVars, convVars, notifVars, chatVars,
                   active_connections, socket_info, count>>

\* server process p dies: its endpoint coroutines stop where they are, with
\* no `finally` and no manager.disconnect; its registry is lost with its
\* memory, and the ids it had added stay in the Redis sets
Crash(p) ==
    /\ \E c \in Conn : ProcOf(c) = p /\ pc[c] \notin {"idle", "closed", "crashed"}
    /\ pc' = [t \in Tasks |->
                IF t \in Conn /\ ProcOf(t) = p
                   /\ pc[t] \notin {"idle", "closed", "crashed"}
                THEN "crashed" ELSE pc[t]]
    /\ active_connections' =
         [active_connections EXCEPT ![p] = [u \in Users |-> {}]]
    /\ socket_info' = [socket_info EXCEPT ![p] = {}]
    /\ UNCHANGED <<idVars, brokerVars, relayVars, convVars, notifVars, chatVars, sockets,
                   count, ttl>>

\* the client of a closed connection comes back: websocket_endpoint runs
\* again and connect() draws a new uuid4 socket id.  The old id is in no
\* set any more, so the slot stands for the new connection
Reopen(c) ==
    /\ pc[c] = "closed"
    /\ c \notin sockets[owner[c]]
    /\ pc' = [pc EXCEPT ![c] = "idle"]
    /\ UNCHANGED <<idVars, brokerVars, relayVars, convVars, notifVars, chatVars, presVars>>

\* the last connection belongs to B, the others to A
ExpiryOwner == [c \in Conn |-> IF c = MaxConn THEN "B" ELSE "A"]

InitExpiry ==
    /\ owner = ExpiryOwner
    /\ ConvIdle
    /\ NotifIdle
    /\ RelayIdle
    /\ BrokerIdle
    /\ Authenticated
    /\ PresenceOf({})
    /\ ChatStore(GroupMembers, <<>>)

\* the steps of connect() and disconnect() that follow the first one
\* without waiting for the client
PresenceStep(c) ==
    \/ AddSocketSadd(c)
    \/ AddSocketExpire(c)
    \/ RemoveSocketSrem(c)
    \/ RemoveSocketScard(c)
    \/ RemoveSocketDelete(c)

NextExpiry ==
    \/ \E c \in Conn :
          \/ ConnectLocal(c)
          \/ DisconnectLocal(c)
          \/ PresenceStep(c)
          \/ Reopen(c)
    \/ \E p \in Procs : Crash(p)
    \/ Tick

SpecExpiry == InitExpiry /\ [][NextExpiry]_vars

\* time passes, and a coroutine that is not waiting for its client goes on
\* (unless its process dies); clients connect, leave and come back as they
\* please
FairSpecExpiry ==
    /\ SpecExpiry
    /\ WF_vars(Tick)
    /\ \A c \in Conn : WF_vars(PresenceStep(c))

(* ------------------------------ C19 ------------------------------------ *)
\* C19: a connection id that a crashed process left in a presence set that
\* carries its expiry is eventually removed from the set, in every
\* execution, those where the principal keeps connecting and disconnecting
\* on other processes included.
C19_PhantomEventuallyRemoved ==
    \A c \in Conn :
        (pc[c] = "crashed" /\ c \in sockets[owner[c]]
                           /\ ttl[owner[c]] # NoTtl)
            ~> (c \notin sockets[owner[c]])

(* ------------------------------ C20 ------------------------------------ *)
\* C20: the expiry of a presence set never removes the id of a connection
\* that is still open, and so never turns is_user_online of its principal
\* from true to false.
C20_ExpiryKeepsOpen ==
    [][Tick =>
         \A c \in Conn :
             (pc[c] = "open" /\ c \in sockets[owner[c]]) =>
                 /\ c \in sockets'[owner[c]]
                 /\ Cardinality(sockets'[owner[c]]) > 0]_vars


(* ------------------------------ team events ---------------------------- *)
\* forum events the consumer receives next to the team routes' events
TeamSideEvents == {<<"post.liked", "B", "A">>, <<"comment.replied", "A", "C">>}

NextTeam ==
    \/ \E u \in Users : request_join_team(u)
    \/ \E m \in Users, r \in 1..MaxOps : approve_join_request(m, r)
    \/ \E m \in Users, r \in 1..MaxOps : reject_join_request(m, r)
    \/ \E e \in TeamSideEvents : PublishEvent(e[1], e[2], e[3])
    \/ NotifReceive
    \/ NotifCheck
    \/ NotifInsert
    \/ NotifInsertFails
    \/ NotifPublish

SpecTeam == InitNotif /\ [][NextTeam]_vars

\* the broker delivers a queued event to the idle consumer, and the handler
\* runs to its end
FairSpecTeam ==
    /\ SpecTeam
    /\ WF_vars(NotifReceive)
    /\ WF_vars(NotifCheck)
    /\ WF_vars(NotifInsert \/ NotifInsertFails)
    /\ WF_vars(NotifPublish)

(* ------------------------------ C21 ------------------------------------ *)
\* C21: every team event published by the team routes is routed to the
\* notification consumer's queue and eventually produces a persisted
\* Notification for its recipient: a join request of u leads to a
\* notification of the owner with actor u, an answered request to a
\* notification of the requester with the owner as actor.
C21_TeamEventNotified ==
    \A u \in Users \ {TeamOwner} :
        /\ (\E i \in DOMAIN join_requests : join_requests[i].user_id = u)
              ~> (\E n \in notifications :
                     n.user_id = TeamOwner /\ n.actor_id = u)
        /\ (\E i \in DOMAIN join_requests :
                 /\ join_requests[i].user_id = u
                 /\ join_requests[i].status # "PENDING")
              ~> (\E n \in notifications :
                     n.user_id = u /\ n.actor_id = TeamOwner)


(* ------------------------ listener specification ----------------------- *)
\* A's connection 1 is open with its listener listening; payloads are
\* published for A, listening fails and is retried, the client leaves
InitListen ==
    /\ owner = RelayOwner
    /\ ConvIdle
    /\ NotifIdle
    /\ RelayIdle
    /\ BrokerIdle
    /\ Authenticated
    /\ PresenceOf({1})
    /\ ChatStore(GroupMembers, <<>>)

\* the steps a listener task takes without a failure of Redis
ListenerStep(c) ==
    \/ ListenerTake(c)
    \/ ListenerSend(c)
    \/ ListenerSendFails(c)
    \/ ListenYieldSubscribe(c)
    \/ \E ok \in BOOLEAN : ListenResubscribe(c, ok)

NextListen ==
    \/ PublishNotification("A")
    \/ \E c \in {1} :
          \/ ListenerStep(c)
          \/ ListenRaises(c)
          \/ DisconnectLocal(c)
          \/ RemoveSocketSrem(c)
          \/ RemoveSocketScard(c)
          \/ RemoveSocketDelete(c)

SpecListen == InitListen /\ [][NextListen]_vars

\* a task that is ready to run runs: the listener's own steps and the
\* steps of disconnect(); failures of Redis, publishes and the clients'
\* departures happen or not
FairSpecListen ==
    /\ SpecListen
    /\ \A c \in {1} :
          /\ WF_vars(ListenerStep(c))
          /\ WF_vars(RemoveSocketSrem(c) \/ RemoveSocketScard(c)
                        \/ RemoveSocketDelete(c))

(* ------------------------------ C22 ------------------------------------ *)
\* C22: a listener does not retry for ever: from some point on no attempt
\* of any listener fails any more (payloads are published MaxInputs times
\* at most, so a listener that kept failing would do so with no payload
\* delivered).
C22_RetriesBounded ==
    \A c \in Conn :
        <>[][listener'[c].retry_count # listener[c].retry_count + 1]_vars

(* ------------------------------ C23 ------------------------------------ *)
\* C23: after a connection has closed (its endpoint ran its cleanup and
\* disconnect), its notification listener eventually stops for good, not
\* subscribed and with no payload in its callback.
C23_ListenerStopsAfterClose ==
    \A c \in Conn :
        (pc[c] = "closed") ~> (/\ listener[c].pc = "stopped"
                               /\ ~listener[c].resubscribed
                               /\ lcur[c] = 0)


(* ------------------------- broker specification ------------------------ *)
InitBroker ==
    /\ owner = ChatOwner
    /\ ConvIdle
    /\ NotifIdle
    /\ RelayIdle
    /\ BrokerIdle
    /\ Authenticated
    /\ PresenceOf({})
    /\ ChatStore(GroupMembers, <<>>)

NextBroker ==
    \E q \in ConsumerQueues :
        \/ BrokerPublish(q)
        \/ BrokerDeliver(q)
        \/ BrokerSettle(q)

SpecBroker == InitBroker /\ [][NextBroker]_vars

(* ------------------------------ C24 ------------------------------------ *)
\* C24: each consumer queue has at most 10 events delivered and not yet
\* acknowledged at any time.
C24_PrefetchBound ==
    \A q \in ConsumerQueues : broker[q].unacked <= NotificationPrefetch


(* ------------------------------ C25 ------------------------------------ *)
\* C25: the durable effects of a MARK_SEEN request are applied once, by the
\* frame handler: when the queue consumer processes the request's
\* message.seen event it resets no unread_count and changes no message
\* status, so a message sent after the request stays unread and not SEEN.
C25_SeenAppliedOnce ==
    [][\A k \in ConsumerTasks :
          (pc[k] \in {"ms_save", "ms_update"} /\ pc'[k] # pc[k]) =>
              /\ \A key \in DOMAIN participants :
                    participants'[key].unread_count =
                        participants[key].unread_count
              /\ \A i \in DOMAIN messages :
                    messages'[i].status = messages[i].status]_vars


(* ------------------------------ C26 ------------------------------------ *)
\* C26: mark_conversation_seen and the relay of MESSAGE_SEEN, run for a
\* principal who is not an active participant of the conversation (never
\* joined, or left), change no participant record and no message and write
\* no frame to any connection.
C26_MarkSeenNonParticipant ==
    [][\A t \in Tasks :
          (/\ pc[t] \in {"ms_save", "ms_update", "seen_relay"}
           /\ pc'[t] # pc[t]
           /\ ~is_participant(cur[t].conv, cur[t].user)) =>
              /\ participants' = participants
              /\ messages' = messages
              /\ outbox' = outbox]_vars


(* ------------------------- typing specification ------------------------ *)
\* A and C are connected, B connects; clients send TYPING frames and the
\* consumer relays them
NextTyping ==
    \/ \E c \in Conn, conv \in Convs : RecvTyping(c, conv)
    \/ \E k \in ConsumerTasks : ConsumeStart(k) \/ HandleTyping(k)
    \/ ConnectLocal(2)
    \/ AddSocketSadd(2)
    \/ AddSocketExpire(2)

SpecTyping == InitChatLeft /\ [][NextTyping]_vars

(* ------------------------------ C27 ------------------------------------ *)
\* C27: every TYPING payload relayed to a connection names a conversation
\* and a typing principal who is an active participant of it.
C27_TypingOnlyFromParticipants ==
    \A c \in Conn : \A i \in DOMAIN outbox[c] :
        outbox[c][i].type = "TYPING" =>
            is_participant(outbox[c][i].conversationId, outbox[c][i].userId)


(* ------------------------------ C28 ------------------------------------ *)
\* C28: a connection is sent at most one MESSAGE_ACK frame for one stored
\* message, the handler's frame and the consumer's relayed payload counted
\* together.
C28_OneAckPerMessage ==
    \A c \in Conn : \A m \in DOMAIN messages :
        Cardinality({i \in DOMAIN outbox[c] : outbox[c][i] = AckFrame(m)}) <= 1


(* ------------------------------ C29 ------------------------------------ *)
\* C29: a connection whose id is in its principal's PresenceSet, and which
\* has not begun closing, is subscribed to the principal's topics.
C29_PresentIsSubscribed ==
    \A c \in Conn :
        (/\ c \in sockets[owner[c]]
         /\ pc[c] \notin {"cleanup", "srem", "scard", "delete", "closed",
                          "crashed"})
            => c \in Subscribers(owner[c])


(* ------------------------------ C30 ------------------------------------ *)
\* C30: when no send_message call is running on a conversation that has
\* messages, the conversation's last_message_id and last_message_content
\* are those of its most recently created message.
C30_LastMessageIsNewest ==
    \A g \in Convs :
        (/\ MessagesOf(g) # {}
         /\ ~\E c \in Conn : pc[c] \in SendPcs /\ cur[c].conv = g) =>
            LET last == CHOOSE i \in MessagesOf(g) :
                            \A j \in MessagesOf(g) : j <= i
            IN  conversations[g] = LastMessageDoc(last, messages[last].content)

====
